---- MODULE Spec2Model ----
(***************************************************************************)
(* dir2txt: the incremental cache (lib/cache.js), the incremental path of  *)
(* the `run` command (bin/cli.js) and the debounced file watcher           *)
(* (lib/watcher.js), modelled as state machines over a small file system.  *)
(***************************************************************************)
EXTENDS Integers, Sequences, FiniteSets, TLC

\* ------------------------------------------------------------------ bounds
NumPaths == 2     \* project files that can exist
MaxTime == 1      \* the clock stops here
MaxFsOps == 1     \* writes and removals of project files in one behaviour
MaxClock == 4     \* the clock of a watch session stops here
MaxEvents == 3    \* handleFileChange calls in one behaviour
MaxCycles == 12   \* processChanges calls that complete in one behaviour
MaxSegments == 3  \* names in a watched path
MaxOptionLen == 4 \* characters in a --debounce text
DebounceDelay == 2 \* config.debounceDelay, in clock ticks

Paths == 1..NumPaths
Times == 0..MaxTime
\* what a file can hold: two texts are enough to tell "same" from "different"
Contents == {"v1", "v2"}

\* ------------------------------------------------------------- state
VARIABLES
  now,            \* wall clock, in milliseconds (Date.now())
  fs,             \* the project files: path -> [mtime, content], domain = existing files
  disk,           \* the cache directory: [dir, metadata, snapshot, relationships]
  enabled,        \* CacheManager.enabled
  metadata,       \* CacheManager.metadata : Map path -> fingerprint
  snapshot,       \* CacheManager.snapshot : Map path -> snapshot entry
  relationships,  \* CacheManager.relationships
  ret,            \* the last operation performed and the value it returned
  fsOps,          \* how many times project files were written or removed
  runPc,          \* `run` command: where the process is ("idle": not running)
  runOpts,        \* `run` command: options.incremental / showChanges / clearCache
  hasCache,       \* `run` command: cache !== null
  files,          \* `run` command: the list getFiles() returned
  changeInfo,     \* `run` command: the ChangeSet, or null
  changedFiles,   \* `run` command: the list handed to generation
  generated,      \* the list generateText() was last called with
  processed,      \* the files whose content a generation of this process wrote out
  pi,             \* the processIncremental call that has not returned yet
  watchers,       \* FileWatcher.watchers: the roots with a chokidar watcher
  debounceTimers, \* FileWatcher.debounceTimers: root -> handle of the last timer set
  timerQueue,     \* the timers setTimeout armed that neither fired nor were cleared
  watchStats,     \* FileWatcher.watchStats
  lastGeneratedFiles, \* FileWatcher.lastGeneratedFiles
  watchCache,     \* FileWatcher.cache !== null
  cycles,         \* the processChanges calls that have not returned yet
  burst,          \* per root: the current burst of handleFileChange calls
  stopping,       \* the stopWatching call that has not returned yet
  armedBefore,    \* per root: the number of handleFileChange calls made before
                  \* the last stopWatching call that stopped the root
  failedCycles,   \* the processChanges calls that have rejected
  completions,    \* the processing times of the processChanges calls that have
                  \* completed, in the order of their completion
  lastEvent       \* per root: the arguments of the last handleFileChange call
                  \* and of the one before it

envVars == <<now, fs, disk, fsOps>>
cacheVars == <<enabled, metadata, snapshot, relationships>>
runVars == <<runPc, runOpts, hasCache, files, changeInfo, changedFiles, generated,
             processed, pi>>
watchVars == <<watchers, debounceTimers, timerQueue, watchStats, lastGeneratedFiles,
               watchCache, cycles, burst, stopping, armedBefore, failedCycles,
                 completions, lastEvent>>
\* the state of the programs that use the Cache Store
progVars == <<runVars, watchVars>>
vars == <<now, fs, disk, fsOps, enabled, metadata, snapshot, relationships, ret,
          runPc, runOpts, hasCache, files, changeInfo, changedFiles, generated,
          processed, pi,
          watchers, debounceTimers, timerQueue, watchStats, lastGeneratedFiles,
          watchCache, cycles, burst, stopping, armedBefore, failedCycles,
                 completions, lastEvent>>

\* ------------------------------------------------------------- helpers
Range(s) == {s[i] : i \in DOMAIN s}

RECURSIVE SortedSeq(_)
SortedSeq(S) ==
  IF S = {} THEN <<>>
  ELSE LET m == CHOOSE x \in S : \A y \in S : x <= y
       IN <<m>> \o SortedSeq(S \ {m})

\* the lists getFiles() can return: sorted, without duplicates
FileLists == {SortedSeq(S) : S \in SUBSET Paths}

EmptyMap == [p \in {} |-> 0]
MapSet(m, k, v) == [p \in (DOMAIN m) \cup {k} |-> IF p = k THEN v ELSE m[p]]
MapDelete(m, k) == [p \in (DOMAIN m) \ {k} |-> m[p]]
MapDeleteAll(m, ks) == [p \in (DOMAIN m) \ ks |-> m[p]]

\* Date.prototype.toISOString and new Date(isoString): a Date holds whole
\* milliseconds and the ISO string carries exactly those milliseconds
ToISOString(ms) == <<"ISO", ms>>
DateParse(iso) == iso[2]

\* stats.size of a file holding content c
SizeOf(c) == IF c = "v1" THEN 100 ELSE 101

\* crypto.createHash('sha256').update(s).digest('hex'), collision free
Sha256(s) == <<"sha256", s>>

\* the files of the cache directory
Missing == [kind |-> "missing"]
Corrupt == [kind |-> "corrupt"]
Json(d) == [kind |-> "json", data |-> d]

\* Object.fromEntries(map) and new Map(Object.entries(object)): an object is
\* its set of key/value entries; the values a store holds (strings, numbers,
\* booleans) come back from JSON.parse(JSON.stringify(v)) as they were
ObjectFromEntries(m) == {<<k, m[k]>> : k \in DOMAIN m}
MapFromEntries(o) == [k \in {e[1] : e \in o} |-> (CHOOSE e \in o : e[1] = k)[2]]

\* a JSON document that parses but has none of the keys a loader reads
NoKeys == [kind |-> "json", data |-> [version |-> "1.0"]]
\* the number a / b of JavaScript, kept as the pair it was computed from
Quotient(a, b) == [num |-> a, den |-> b]

RECURSIVE Sum(_)
Sum(s) == IF Len(s) = 0 THEN 0 ELSE Head(s) + Sum(Tail(s))

NoCacheDir == [dir |-> FALSE, metadata |-> Missing, snapshot |-> Missing,
               relationships |-> Missing]

\* relationships is `new Map()` until something else is assigned; JSON.stringify
\* of a Map is "{}", which parses back to a plain (truthy) object
RelMap == "Map(0)"
RelObject == "{}"
RelToJson(r) == IF r = RelMap THEN RelObject ELSE r

\* ------------------------------------------------------- lib/cache.js
\* getFileHash(filePath): null when stat or readFile throws
Null == [null |-> TRUE]
GetFileHash(fsys, f) ==
  IF f \notin DOMAIN fsys THEN Null
  ELSE [hash    |-> Sha256(<<fsys[f].content, ToISOString(fsys[f].mtime)>>),
        size    |-> SizeOf(fsys[f].content),
        mtime   |-> ToISOString(fsys[f].mtime),
        content |-> fsys[f].content]

\* hasFileChanged with `>=` for `>`: an unchanged file counts as changed
HasFileChangedGe(en, md, fsys, f) ==
  IF ~en THEN TRUE
  ELSE IF f \notin DOMAIN md THEN TRUE
  ELSE IF f \notin DOMAIN fsys THEN TRUE
  ELSE fsys[f].mtime >= DateParse(md[f].mtime)

\* hasFileChanged without the `if (!cached) return true` line
HasFileChangedNoCached(en, md, fsys, f) ==
  IF ~en THEN TRUE
  ELSE IF f \notin DOMAIN md THEN FALSE
  ELSE IF f \notin DOMAIN fsys THEN TRUE
  ELSE fsys[f].mtime > DateParse(md[f].mtime)

\* hasFileChanged comparing the content hash and not the mtime
HasFileChangedByHash(en, md, fsys, f) ==
  IF ~en THEN TRUE
  ELSE IF f \notin DOMAIN md THEN TRUE
  ELSE IF f \notin DOMAIN fsys THEN TRUE
  ELSE md[f].hash # Sha256(<<fsys[f].content, md[f].mtime>>)

\* hasFileChanged(filePath)
HasFileChanged(en, md, fsys, f) ==
  IF ~en THEN TRUE
  ELSE IF f \notin DOMAIN md THEN TRUE
  ELSE IF f \notin DOMAIN fsys THEN TRUE   \* fs.stat throws
  ELSE fsys[f].mtime > DateParse(md[f].mtime)

\* metadata.keys(), listed in path order
MapKeys(m) == SortedSeq(DOMAIN m)

\* getChangedFiles without the existingFiles test: every cached path is "deleted"
GetChangedFilesAllDeleted(en, md, fsys, allFiles) ==
  IF ~en THEN [changed |-> allFiles, new |-> allFiles, deleted |-> <<>>]
  ELSE LET Changed(f) == HasFileChanged(en, md, fsys, f)
           IsNew(f) == f \notin DOMAIN md
           changed == SelectSeq(allFiles, Changed)
       IN [changed |-> changed,
           new     |-> SelectSeq(changed, IsNew),
           deleted |-> MapKeys(md)]

\* getChangedFiles(allFiles)
GetChangedFiles(en, md, fsys, allFiles) ==
  IF ~en THEN [changed |-> allFiles, new |-> allFiles, deleted |-> <<>>]
  ELSE LET Changed(f) == HasFileChanged(en, md, fsys, f)
           IsNew(f) == f \notin DOMAIN md
           existingFiles == Range(allFiles)
           NotExisting(k) == k \notin existingFiles
           changed == SelectSeq(allFiles, Changed)
       IN [changed |-> changed,
           new     |-> SelectSeq(changed, IsNew),
           deleted |-> SelectSeq(MapKeys(md), NotExisting)]

\* updateFileCache(filePath, data): the metadata map afterwards
UpdateMetadata(en, md, fsys, t, f) ==
  IF ~en THEN md
  ELSE IF GetFileHash(fsys, f) = Null THEN md
  ELSE LET info == GetFileHash(fsys, f)
       IN MapSet(md, f, [hash |-> info.hash, size |-> info.size,
                         mtime |-> info.mtime,
                         lastProcessed |-> ToISOString(t)])

\* updateFileCache(filePath, data): the snapshot map afterwards
UpdateSnapshot(en, sn, fsys, t, f, data) ==
  IF ~en THEN sn
  ELSE IF GetFileHash(fsys, f) = Null THEN sn
  ELSE MapSet(sn, f, [data |-> data, cachedAt |-> ToISOString(t)])

\* saveMetadata / saveSnapshot / saveRelationships: writeFile fails (and is
\* only warned about) when the cache directory does not exist
SaveMetadata(en, md, d) ==
  IF ~en \/ ~d.dir THEN d
  ELSE [d EXCEPT !.metadata = Json([files |-> ObjectFromEntries(md)])]
SaveSnapshot(en, sn, d) ==
  IF ~en \/ ~d.dir THEN d
  ELSE [d EXCEPT !.snapshot = Json([files |-> ObjectFromEntries(sn)])]
SaveRelationships(en, rel, d) ==
  IF ~en \/ ~d.dir THEN d
  ELSE [d EXCEPT !.relationships = Json([relationships |-> RelToJson(rel)])]

\* save(): the three sections, each on its own
Save(en, md, sn, rel, d) ==
  SaveRelationships(en, rel, SaveSnapshot(en, sn, SaveMetadata(en, md, d)))

\* loadMetadata without its assignment from data.files
LoadMetadataFresh(md, d) == EmptyMap

\* loadMetadata / loadSnapshot / loadRelationships on a store that holds md
\* (sn, rel): a missing or unparseable file gives a new Map, a document
\* without the key leaves the field as it is
LoadMetadata(md, d) ==
  IF d.metadata.kind # "json" THEN EmptyMap
  ELSE IF "files" \in DOMAIN d.metadata.data
    THEN MapFromEntries(d.metadata.data.files)
  ELSE md
LoadSnapshot(sn, d) ==
  IF d.snapshot.kind # "json" THEN EmptyMap
  ELSE IF "files" \in DOMAIN d.snapshot.data
    THEN MapFromEntries(d.snapshot.data.files)
  ELSE sn
LoadRelationships(rel, d) ==
  IF d.relationships.kind # "json" THEN RelMap
  ELSE IF "relationships" \in DOMAIN d.relationships.data
    THEN d.relationships.data.relationships
  ELSE rel

\* clear() without its `if (!this.enabled) return` line
ClearDiskAlways(en, d) == NoCacheDir

\* clear(): rm -rf the cache directory (the maps are reset by the step)
ClearDisk(en, d) == IF ~en THEN d ELSE NoCacheDir

\* the four fields of a CacheManager, as one value
ThisCache == [enabled |-> enabled, metadata |-> metadata, snapshot |-> snapshot,
              relationships |-> relationships]

\* new CacheManager({enabled: en})
NewCache(en) == [enabled |-> en, metadata |-> EmptyMap, snapshot |-> EmptyMap,
                 relationships |-> RelMap]

\* the three files of d are valid JSON
AllJson(d) ==
  d.metadata.kind = "json" /\ d.snapshot.kind = "json" /\ d.relationships.kind = "json"

\* initialize() without its `if (!this.enabled) return` line: a mkdir that
\* succeeds makes the store usable again
InitializeCacheReenables(c, d, mkdirOk) ==
  IF mkdirOk
    THEN [cache |-> [enabled |-> TRUE, metadata |-> LoadMetadata(c.metadata, d),
                     snapshot |-> LoadSnapshot(c.snapshot, d),
                     relationships |-> LoadRelationships(c.relationships, d)],
          disk |-> [d EXCEPT !.dir = TRUE]]
  ELSE [cache |-> [c EXCEPT !.enabled = FALSE], disk |-> d]

\* initialize() with one try/catch around the three loads: any section that
\* fails to load empties all three
InitializeCacheAllOrNothing(c, d, mkdirOk) ==
  IF ~c.enabled THEN [cache |-> c, disk |-> d]
  ELSE IF mkdirOk
    THEN [cache |-> IF AllJson(d)
                      THEN [enabled |-> TRUE, metadata |-> LoadMetadata(c.metadata, d),
                            snapshot |-> LoadSnapshot(c.snapshot, d),
                            relationships |-> LoadRelationships(c.relationships, d)]
                    ELSE [enabled |-> TRUE, metadata |-> EmptyMap,
                          snapshot |-> EmptyMap, relationships |-> RelMap],
          disk |-> [d EXCEPT !.dir = TRUE]]
  ELSE [cache |-> [c EXCEPT !.enabled = FALSE], disk |-> d]

\* initialize(): the store and the directory afterwards; mkdirOk is whether
\* fs.mkdir succeeds
InitializeCache(c, d, mkdirOk) ==
  IF ~c.enabled THEN [cache |-> c, disk |-> d]
  ELSE IF mkdirOk
    THEN [cache |-> [enabled |-> TRUE, metadata |-> LoadMetadata(c.metadata, d),
                     snapshot |-> LoadSnapshot(c.snapshot, d),
                     relationships |-> LoadRelationships(c.relationships, d)],
          disk |-> [d EXCEPT !.dir = TRUE]]
  ELSE [cache |-> [c EXCEPT !.enabled = FALSE], disk |-> d]

\* createCache(options)
CreateCache(en, d, mkdirOk) == InitializeCache(NewCache(en), d, mkdirOk)

\* clear(): the store and the directory afterwards
ClearCache(c, d) ==
  IF ~c.enabled THEN [cache |-> c, disk |-> ClearDisk(c.enabled, d)]
  ELSE [cache |-> [c EXCEPT !.metadata = EmptyMap, !.snapshot = EmptyMap,
                            !.relationships = RelMap],
        disk |-> ClearDisk(c.enabled, d)]

\* the directory and the flag are left alone; the three maps take c's
SetCache(c) ==
  /\ enabled' = c.enabled
  /\ metadata' = c.metadata
  /\ snapshot' = c.snapshot
  /\ relationships' = c.relationships

\* ------------------------------------------------ steps: the environment
Other == [op |-> "other"]

\* time passes
Tick ==
  /\ now < MaxTime
  /\ now' = now + 1
  /\ ret' = Other
  /\ UNCHANGED progVars
  /\ UNCHANGED <<fs, disk, fsOps>>
  /\ UNCHANGED cacheVars

\* some program writes (or creates) a project file: mtime becomes the clock
WriteFile(f, c) ==
  /\ fsOps < MaxFsOps
  /\ fsOps' = fsOps + 1
  /\ fs' = MapSet(fs, f, [mtime |-> now, content |-> c])
  /\ fs' # fs
  /\ ret' = Other
  /\ UNCHANGED progVars
  /\ UNCHANGED <<now, disk>>
  /\ UNCHANGED cacheVars

\* some program removes a project file
Unlink(f) ==
  /\ f \in DOMAIN fs
  /\ fsOps < MaxFsOps
  /\ fsOps' = fsOps + 1
  /\ fs' = MapDelete(fs, f)
  /\ ret' = Other
  /\ UNCHANGED progVars
  /\ UNCHANGED <<now, disk>>
  /\ UNCHANGED cacheVars

\* ------------------------------------------- steps: the CacheManager API
\* new CacheManager({enabled: en})
Construct(en) ==
  /\ enabled' = en
  /\ metadata' = EmptyMap
  /\ snapshot' = EmptyMap
  /\ relationships' = RelMap
  /\ ret' = [op |-> "constructor"]
  /\ UNCHANGED progVars
  /\ UNCHANGED envVars

\* await cache.hasFileChanged(f)
CallHasFileChanged(f) ==
  /\ ret' = [op |-> "hasFileChanged", path |-> f,
             value |-> HasFileChanged(enabled, metadata, fs, f)]
  /\ UNCHANGED progVars
  /\ UNCHANGED envVars
  /\ UNCHANGED cacheVars

\* await cache.getChangedFiles(allFiles)
CallGetChangedFiles(allFiles) ==
  /\ ret' = [op |-> "getChangedFiles", files |-> allFiles,
             value |-> GetChangedFiles(enabled, metadata, fs, allFiles)]
  /\ UNCHANGED progVars
  /\ UNCHANGED envVars
  /\ UNCHANGED cacheVars

\* await cache.updateFileCache(f, data)
CallUpdateFileCache(f, data) ==
  /\ metadata' = UpdateMetadata(enabled, metadata, fs, now, f)
  /\ snapshot' = UpdateSnapshot(enabled, snapshot, fs, now, f, data)
  /\ ret' = [op |-> "updateFileCache"]
  /\ UNCHANGED progVars
  /\ UNCHANGED <<enabled, relationships>>
  /\ UNCHANGED envVars

\* the payload processIncremental passes to updateFileCache
Processed == [processed |-> TRUE]

\* the roots that can be watched
Roots == {"/project", "/other"}
\* the root of a session that watches one directory
MainRoot == "/project"
\* no stopWatching call is under way
NoRoot == "null"
\* no handleFileChange call yet
NoArgs == [eventType |-> "none", path |-> 0]
NoEvent == [last |-> NoArgs, previous |-> NoArgs]
NotStopping == [pc |-> "idle", arg |-> NoRoot, branch |-> "none", current |-> NoRoot,
                closed |-> {}, mark |-> 0]
\* no handleFileChange call yet
NoBurst == [len |-> 0, lastCall |-> 0, fires |-> 0]

\* no processIncremental call is under way
NoCall == [pc |-> "idle", files |-> <<>>, changed |-> <<>>, deleted |-> <<>>,
           calls |-> <<>>, trace |-> <<>>]

\* no `run` process: no options
NoOpts == [incremental |-> FALSE, showChanges |-> FALSE, clearCache |-> FALSE,
           dry |-> FALSE, preview |-> 0]

\* ------------------------------------------ the diff engine on its own
Init ==
  /\ now = 0
  /\ fs \in {[p \in S |-> [mtime |-> 0, content |-> "v1"]] : S \in SUBSET Paths}
  /\ fsOps = 0
  /\ disk = NoCacheDir
  /\ enabled \in BOOLEAN
  /\ metadata = EmptyMap
  /\ snapshot = EmptyMap
  /\ relationships = RelMap
  /\ ret = [op |-> "constructor"]
  /\ runPc = "idle"
  /\ runOpts = NoOpts
  /\ hasCache = FALSE
  /\ files = <<>>
  /\ changeInfo = Null
  /\ changedFiles = <<>>
  /\ generated = <<>>
  /\ processed = {}
  /\ pi = NoCall
  /\ watchers = {}
  /\ debounceTimers = EmptyMap
  /\ timerQueue = {}
  /\ watchStats = [totalChanges |-> 0, filesWatched |-> 0, processingTimes |-> <<>>,
                   averageProcessingTime |-> Quotient(0, 1)]
  /\ lastGeneratedFiles = {}
  /\ watchCache = FALSE
  /\ cycles = {}
  /\ burst = [r \in Roots |-> NoBurst]
  /\ stopping = NotStopping
  /\ armedBefore = [r \in Roots |-> 0]
  /\ failedCycles = {}
  /\ completions = <<>>
  /\ lastEvent = [r \in Roots |-> NoEvent]

NextDiff ==
  \/ Tick
  \/ \E f \in Paths, c \in Contents : WriteFile(f, c)
  \/ \E f \in Paths : Unlink(f)
  \/ \E f \in Paths : CallHasFileChanged(f)
  \/ \E l \in FileLists : CallGetChangedFiles(l)
  \/ \E f \in Paths : CallUpdateFileCache(f, Processed)

SpecDiff == Init /\ [][NextDiff]_vars

\* await cache.initialize()
Initialize(mkdirOk) ==
  /\ SetCache(InitializeCache(ThisCache, disk, mkdirOk).cache)
  /\ disk' = InitializeCache(ThisCache, disk, mkdirOk).disk
  /\ ret' = [op |-> "initialize", mkdirOk |-> mkdirOk, threw |-> FALSE]
  /\ UNCHANGED progVars
  /\ UNCHANGED <<now, fs, fsOps>>

\* cleanup: await this.saveMetadata(); await this.saveSnapshot()
PersistCleanupAll(en, md, sn, rel, d) == Save(en, md, sn, rel, d)
PersistCleanup(en, md, sn, rel, d) == SaveSnapshot(en, sn, SaveMetadata(en, md, d))

\* await cache.cleanup(deletedFiles)
CallCleanup(deletedFiles) ==
  /\ IF ~enabled \/ Len(deletedFiles) = 0
       THEN UNCHANGED <<metadata, snapshot, disk>>
     ELSE /\ metadata' = MapDeleteAll(metadata, Range(deletedFiles))
          /\ snapshot' = MapDeleteAll(snapshot, Range(deletedFiles))
          /\ disk' = PersistCleanup(enabled, metadata', snapshot',
                                    relationships, disk)
  /\ ret' = [op |-> "cleanup", paths |-> deletedFiles,
             held |-> Range(deletedFiles) \cap DOMAIN metadata]
  /\ UNCHANGED progVars
  /\ UNCHANGED <<enabled, relationships, now, fs, fsOps>>

\* await cache.save()
CallSave ==
  /\ disk' = Save(enabled, metadata, snapshot, relationships, disk)
  /\ ret' = [op |-> "save"]
  /\ UNCHANGED progVars
  /\ UNCHANGED <<now, fs, fsOps>>
  /\ UNCHANGED cacheVars

\* await cache.clear()
CallClear ==
  /\ SetCache(ClearCache(ThisCache, disk).cache)
  /\ disk' = ClearCache(ThisCache, disk).disk
  /\ ret' = [op |-> "clear"]
  /\ UNCHANGED progVars
  /\ UNCHANGED <<now, fs, fsOps>>

\* --------------------------------- the Cache Store with its directory
NextStore ==
  \/ \E en \in BOOLEAN : Construct(en)
  \/ \E ok \in BOOLEAN : Initialize(ok)
  \/ \E l \in FileLists : CallGetChangedFiles(l)
  \/ \E f \in Paths : CallUpdateFileCache(f, Processed)
  \/ \E l \in FileLists : CallCleanup(l)
  \/ CallSave
  \/ CallClear

SpecStore == Init /\ [][NextStore]_vars

\* ------------------------- the cache directory, damaged from outside
Sections == {"metadata", "snapshot", "relationships"}

\* another program removes a file of the cache directory, or leaves it
\* unparseable, or valid JSON without the key the loader reads
Tamper(section, doc) ==
  /\ disk.dir
  /\ disk' = [disk EXCEPT ![section] = doc]
  /\ disk' # disk
  /\ ret' = Other
  /\ UNCHANGED progVars
  /\ UNCHANGED <<now, fs, fsOps>>
  /\ UNCHANGED cacheVars

NextPersist ==
  \/ \E en \in BOOLEAN : Construct(en)
  \/ \E ok \in BOOLEAN : Initialize(ok)
  \/ \E f \in Paths : CallUpdateFileCache(f, Processed)
  \/ CallSave
  \/ CallClear
  \/ \E sec \in Sections, doc \in {Missing, Corrupt, NoKeys} : Tamper(sec, doc)

SpecPersist == Init /\ [][NextPersist]_vars

\* ------------------------------------------ bin/cli.js: the run command
\* the option sets tried: --incremental and --clear-cache, each on or off
\* --preview <n>: 0 stands for the option not given
PreviewCounts == {0, 1}
RunOptions == [incremental : BOOLEAN, showChanges : {FALSE}, clearCache : BOOLEAN,
               dry : BOOLEAN, preview : PreviewCounts]

\* readFileContent over a list: the files whose content is read and written
\* out; a file that cannot be read leaves an error note in its place
Written(l, fsys) == Range(l) \cap DOMAIN fsys

\* filePaths.slice(0, previewCount)
PreviewFiles(l, n) == SubSeq(l, 1, IF n < Len(l) THEN n ELSE Len(l))

\* getFiles(traverseOptions): the project files, sorted
GetFiles(fsys) == SortedSeq(DOMAIN fsys)

\* the cache the run command ends up with (null when no option asks for one):
\* createCache({enabled: !clearCache}), and with --clear-cache then clear()
\* on that store and a second createCache({cacheDir})
RunCache(opts, d, mkdirOk) ==
  LET first == CreateCache(~opts.clearCache, d, mkdirOk)
      cleared == ClearCache(first.cache, first.disk)
  IN IF opts.clearCache THEN CreateCache(TRUE, cleared.disk, mkdirOk) ELSE first

\* `dir2txt run` starts: options are parsed, the cache is created
RunStart(opts, mkdirOk) ==
  /\ runPc = "idle"
  /\ runOpts' = opts
  /\ hasCache' = (opts.incremental \/ opts.showChanges \/ opts.clearCache)
  /\ IF hasCache'
       THEN /\ SetCache(RunCache(opts, disk, mkdirOk).cache)
            /\ disk' = RunCache(opts, disk, mkdirOk).disk
       ELSE /\ SetCache(NewCache(TRUE))
            /\ UNCHANGED disk
  /\ runPc' = "getFiles"
  /\ files' = <<>>
  /\ changeInfo' = Null
  /\ changedFiles' = <<>>
  /\ generated' = <<>>
  /\ processed' = {}
  /\ ret' = [op |-> "run.start"]
  /\ UNCHANGED <<now, fs, fsOps, pi>>
  /\ UNCHANGED watchVars

\* files = await getFiles(...); an empty list ends the process (exit 1)
RunGetFiles ==
  /\ runPc = "getFiles"
  /\ files' = GetFiles(fs)
  /\ runPc' = IF Len(files') = 0 THEN "idle" ELSE "diff"
  /\ ret' = [op |-> "run.getFiles"]
  /\ UNCHANGED <<now, fs, fsOps, disk, runOpts, hasCache, changeInfo, changedFiles,
                 generated, processed, pi>>
  /\ UNCHANGED cacheVars
  /\ UNCHANGED watchVars

\* changeInfo = await cache.getChangedFiles(files); with --incremental only
\* the changed files go on, and none at all ends the run
RunDiff ==
  /\ runPc = "diff"
  /\ changeInfo' = IF hasCache THEN GetChangedFiles(enabled, metadata, fs, files)
                   ELSE Null
  /\ changedFiles' = IF hasCache /\ runOpts.incremental THEN changeInfo'.changed
                     ELSE files
  /\ runPc' = IF hasCache /\ runOpts.incremental /\ Len(changedFiles') = 0
              THEN "idle" ELSE "generate"
  /\ ret' = [op |-> "run.diff"]
  /\ UNCHANGED <<now, fs, fsOps, disk, runOpts, hasCache, files, generated,
                 processed, pi>>
  /\ UNCHANGED cacheVars
  /\ UNCHANGED watchVars

\* options.preview ? generatePreview(changedFiles, options.preview, ...)
\*                 : generateText(changedFiles, {dry: options.dry, ...})
RunGenerate ==
  /\ runPc = "generate"
  /\ generated' = changedFiles
  /\ processed' = IF runOpts.preview # 0
                    THEN Written(PreviewFiles(changedFiles, runOpts.preview), fs)
                  ELSE IF runOpts.dry THEN {}
                  ELSE Written(changedFiles, fs)
  /\ runPc' = IF hasCache THEN "updateCache" ELSE "idle"
  /\ ret' = [op |-> "run.generate"]
  /\ UNCHANGED <<now, fs, fsOps, disk, runOpts, hasCache, files, changeInfo,
                 changedFiles, pi>>
  /\ UNCHANGED cacheVars
  /\ UNCHANGED watchVars

\* updateFileCache over a list, first to last
RECURSIVE UpdateAll(_, _, _, _, _)
UpdateAll(en, md, fsys, t, l) ==
  IF l = <<>> THEN md
  ELSE UpdateAll(en, UpdateMetadata(en, md, fsys, t, Head(l)), fsys, t, Tail(l))

RECURSIVE UpdateAllSnapshots(_, _, _, _, _, _)
UpdateAllSnapshots(en, sn, fsys, t, l, data) ==
  IF l = <<>> THEN sn
  ELSE UpdateAllSnapshots(en, UpdateSnapshot(en, sn, fsys, t, Head(l), data),
                          fsys, t, Tail(l), data)

\* the payload the run command passes to updateFileCache
ProcessedAt(t) == [processed |-> TRUE, processedAt |-> ToISOString(t)]

\* for (const filePath of changedFiles) await cache.updateFileCache(...)
RunUpdateCache ==
  /\ runPc = "updateCache"
  /\ metadata' = UpdateAll(enabled, metadata, fs, now, changedFiles)
  /\ snapshot' = UpdateAllSnapshots(enabled, snapshot, fs, now, changedFiles,
                                    ProcessedAt(now))
  /\ runPc' = "save"
  /\ ret' = [op |-> "run.updateCache"]
  /\ UNCHANGED <<now, fs, fsOps, disk, runOpts, hasCache, files, changeInfo,
                 changedFiles, generated, processed, enabled, relationships, pi>>
  /\ UNCHANGED watchVars

\* await cache.save(), and the process ends
RunSave ==
  /\ runPc = "save"
  /\ disk' = Save(enabled, metadata, snapshot, relationships, disk)
  /\ runPc' = "idle"
  /\ ret' = [op |-> "run.save"]
  /\ UNCHANGED <<now, fs, fsOps, runOpts, hasCache, files, changeInfo,
                 changedFiles, generated, processed, pi>>
  /\ UNCHANGED cacheVars
  /\ UNCHANGED watchVars

NextRun ==
  \/ Tick
  \/ \E f \in Paths, c \in Contents : WriteFile(f, c)
  \/ \E f \in Paths : Unlink(f)
  \/ \E opts \in RunOptions, ok \in BOOLEAN : RunStart(opts, ok)
  \/ RunGetFiles
  \/ RunDiff
  \/ RunGenerate
  \/ RunUpdateCache
  \/ RunSave

SpecRun == Init /\ [][NextRun]_vars

\* ---------------------------------------------------------------------------
\* watch mode: FileWatcher
\* ---------------------------------------------------------------------------

EventTypes == {"add", "change", "unlink"}

\* processingTimes keeps this many samples
MaxSamples == 10

\* clearTimeout(handle): the timer, if still armed, never fires
ClearTimeoutNoop(queue, handle) == queue
ClearTimeout(queue, handle) == {t \in queue : t.id # handle}

\* the armed timers whose delay has elapsed
DueTimers == {t \in timerQueue : t.deadline <= now}

\* time passes in a watch session; a timer that is due runs before the clock
\* moves on
TickW ==
  /\ now < MaxClock
  /\ DueTimers = {}
  /\ now' = now + 1
  /\ ret' = Other
  /\ UNCHANGED <<fs, disk, fsOps>>
  /\ UNCHANGED cacheVars
  /\ UNCHANGED progVars

\* the payload watch mode passes to updateFileCache
WatchProcessedAt(t) == [processed |-> TRUE, processedAt |-> ToISOString(t),
                        watchMode |-> TRUE]

\* startWatching(watchPath): the cache when incremental, the first listing,
\* generateOutput(initialFiles, 'initial') with its cache update and save,
\* then the chokidar watcher is registered
StartWatching(watchPath, incremental, mkdirOk) ==
  /\ watchPath \notin watchers
  /\ LET made == CreateCache(TRUE, disk, mkdirOk)
         c == IF incremental THEN made.cache ELSE ThisCache
         d == IF incremental THEN made.disk ELSE disk
         initialFiles == GetFiles(fs)
         md == UpdateAll(c.enabled, c.metadata, fs, now, initialFiles)
         sn == UpdateAllSnapshots(c.enabled, c.snapshot, fs, now, initialFiles,
                                  WatchProcessedAt(now))
     IN /\ watchCache' = incremental
        /\ lastGeneratedFiles' = Range(initialFiles)
        /\ watchStats' = [watchStats EXCEPT !.filesWatched = Len(initialFiles)]
        /\ generated' = initialFiles
        /\ processed' = processed \cup Written(initialFiles, fs)
        /\ IF incremental
             THEN /\ enabled' = c.enabled
                  /\ metadata' = md
                  /\ snapshot' = sn
                  /\ relationships' = c.relationships
                  /\ disk' = Save(c.enabled, md, sn, c.relationships, d)
             ELSE /\ UNCHANGED cacheVars
                  /\ UNCHANGED disk
  /\ watchers' = watchers \cup {watchPath}
  /\ ret' = [op |-> "startWatching", root |-> watchPath]
  /\ UNCHANGED <<now, fs, fsOps, debounceTimers, timerQueue, cycles, burst, stopping, armedBefore, failedCycles,
                 completions, lastEvent>>
  /\ UNCHANGED <<runPc, runOpts, hasCache, files, changeInfo, changedFiles, pi>>

\* the burst of calls a call at time t belongs to: the current one when the
\* call comes less than the delay after the previous call, else a new one
BurstAfterCall(b, t) ==
  IF b.len > 0 /\ t - b.lastCall < DebounceDelay
    THEN [b EXCEPT !.len = @ + 1, !.lastCall = t]
    ELSE [len |-> 1, lastCall |-> t, fires |-> 0]

\* what the setTimeout callback of a handleFileChange call closes over
ClosureOfNothing(eventType, filePath) == NoArgs
Closure(eventType, filePath) == [eventType |-> eventType, path |-> filePath]

\* this.watchStats.totalChanges++
CountChangeTwice(stats) == [stats EXCEPT !.totalChanges = @ + 2]
CountChange(stats) == [stats EXCEPT !.totalChanges = @ + 1]

\* the key of a root's handle in this.debounceTimers
TimerKeyShared(watchPath) == "*"
TimerKey(watchPath) == watchPath

\* handleFileChange(eventType, filePath, watchPath)
HandleFileChange(eventType, filePath, watchPath) ==
  /\ watchStats.totalChanges < MaxEvents
  /\ now + DebounceDelay <= MaxClock
  /\ DueTimers = {}
  /\ watchStats' = CountChange(watchStats)
  /\ LET key == TimerKey(watchPath)
         armed == IF key \in DOMAIN debounceTimers
                    THEN ClearTimeout(timerQueue, debounceTimers[key])
                    ELSE timerQueue
         args == Closure(eventType, filePath)
         timer == [id |-> watchStats'.totalChanges, root |-> watchPath,
                   deadline |-> now + DebounceDelay,
                   eventType |-> args.eventType, path |-> args.path]
     IN /\ timerQueue' = armed \cup {timer}
        /\ debounceTimers' = MapSet(debounceTimers, key, timer.id)
  /\ burst' = [burst EXCEPT ![watchPath] = BurstAfterCall(@, now)]
  /\ lastEvent' = [lastEvent EXCEPT ![watchPath] =
                     [last |-> [eventType |-> eventType, path |-> filePath],
                      previous |-> @.last]]
  /\ ret' = [op |-> "handleFileChange", root |-> watchPath]
  /\ UNCHANGED <<now, fs, disk, fsOps, watchers, lastGeneratedFiles, watchCache, cycles,
                 stopping, armedBefore, failedCycles,
                 completions>>
  /\ UNCHANGED cacheVars
  /\ UNCHANGED runVars

\* the setTimeout callback runs: processChanges(watchPath, eventType, filePath)
\* starts and takes its startTime; it never reads its third argument
TimerFire(t) ==
  /\ t \in DueTimers
  /\ timerQueue' = timerQueue \ {t}
  /\ cycles' = cycles \cup {[id |-> t.id, root |-> t.root, eventType |-> t.eventType,
                             pc |-> "enumerate", startTime |-> now,
                             steps |-> <<>>, read |-> EmptyMap,
                             files |-> <<>>, changed |-> <<>>]}
  /\ burst' = [burst EXCEPT ![t.root].fires = @ + 1]
  /\ ret' = [op |-> "timerFire", root |-> t.root, id |-> t.id,
             eventType |-> t.eventType, path |-> t.path]
  /\ UNCHANGED <<now, fs, disk, fsOps, watchers, debounceTimers, watchStats,
                 lastGeneratedFiles, watchCache, stopping, armedBefore, failedCycles,
                 completions, lastEvent>>
  /\ UNCHANGED cacheVars
  /\ UNCHANGED runVars

\* cycle c has completed its step c.pc and goes on as d
Continue(c, d) ==
  cycles' = (cycles \ {c}) \cup {[d EXCEPT !.steps = Append(c.steps, c.pc)]}

\* generateOutput asks the cache for the changed files when there is a cache
\* and the generation is not the initial one
DiffsFirstUnlessUnlink(cached, changeType) ==
  cached /\ changeType \notin {"initial", "unlink"}
DiffsFirst(cached, changeType) == cached /\ changeType # "initial"

\* processChanges: loadConfig, currentFiles = await getFilteredFiles(...), the
\* file tracking, and generateOutput up to its first await
CycleEnumerate(c) ==
  /\ c \in cycles
  /\ c.pc = "enumerate"
  /\ LET currentFiles == GetFiles(fs)
     IN /\ lastGeneratedFiles' = Range(currentFiles)
        /\ watchStats' = [watchStats EXCEPT !.filesWatched = Len(currentFiles)]
        /\ Continue(c, [c EXCEPT !.files = currentFiles,
                                 !.changed = currentFiles,
                                 !.pc = IF DiffsFirst(watchCache, c.eventType)
                                          THEN "diff" ELSE "generate"])
  /\ ret' = [op |-> "cycle.enumerate", root |-> c.root, id |-> c.id]
  /\ UNCHANGED <<now, fs, disk, fsOps, watchers, debounceTimers, timerQueue,
                 watchCache, burst, stopping, armedBefore, failedCycles,
                 completions, lastEvent>>
  /\ UNCHANGED cacheVars
  /\ UNCHANGED runVars

\* generateOutput: changeInfo = await this.cache.getChangedFiles(files); no
\* changed file ends generateOutput
CycleDiff(c) ==
  /\ c \in cycles
  /\ c.pc = "diff"
  /\ LET info == GetChangedFiles(enabled, metadata, fs, c.files)
     IN Continue(c, [c EXCEPT !.changed = info.changed,
                              !.pc = IF Len(info.changed) = 0 THEN "finish"
                                     ELSE "generate"])
  /\ ret' = [op |-> "cycle.diff", root |-> c.root, id |-> c.id]
  /\ UNCHANGED <<now, fs, disk, fsOps, generated, processed, watchers, debounceTimers,
                 timerQueue,
                 watchStats, lastGeneratedFiles, watchCache, burst, stopping, armedBefore, failedCycles,
                 completions, lastEvent>>
  /\ UNCHANGED cacheVars
  /\ UNCHANGED <<runPc, runOpts, hasCache, files, changeInfo, changedFiles, pi>>

\* what generateOutput does after generateText returned: the cache update
\* when there is a cache, else nothing more
AfterGenerateSaveFirst(cached) == "save"
AfterGenerate(cached) == IF cached THEN "updateCache" ELSE "finish"

\* generateOutput: await generateText(filesToProcess, options); the cycle
\* keeps for the record the project as generateText read it
CycleGenerate(c) ==
  /\ c \in cycles
  /\ c.pc = "generate"
  /\ generated' = c.changed
  /\ processed' = processed \cup Written(c.changed, fs)
  /\ Continue(c, [c EXCEPT !.pc = AfterGenerate(watchCache), !.read = fs])
  /\ ret' = [op |-> "cycle.generate", root |-> c.root, id |-> c.id]
  /\ UNCHANGED <<now, fs, disk, fsOps, watchers, debounceTimers, timerQueue,
                 watchStats, lastGeneratedFiles, watchCache, burst, stopping, armedBefore, failedCycles,
                 completions, lastEvent>>
  /\ UNCHANGED cacheVars
  /\ UNCHANGED <<runPc, runOpts, hasCache, files, changeInfo, changedFiles, pi>>

\* generateOutput: updateFileCache for each processed file
CycleUpdateCache(c) ==
  /\ c \in cycles
  /\ c.pc = "updateCache"
  /\ metadata' = UpdateAll(enabled, metadata, fs, now, c.changed)
  /\ snapshot' = UpdateAllSnapshots(enabled, snapshot, fs, now, c.changed,
                                    WatchProcessedAt(now))
  /\ Continue(c, [c EXCEPT !.pc = "save"])
  /\ ret' = [op |-> "cycle.updateCache", root |-> c.root, id |-> c.id]
  /\ UNCHANGED <<now, fs, disk, fsOps, enabled, relationships, watchers, debounceTimers,
                 timerQueue, watchStats, lastGeneratedFiles, watchCache, burst, stopping, armedBefore, failedCycles,
                 completions, lastEvent>>
  /\ UNCHANGED runVars

\* generateOutput: await this.cache.save()
CycleSave(c) ==
  /\ c \in cycles
  /\ c.pc = "save"
  /\ disk' = Save(enabled, metadata, snapshot, relationships, disk)
  /\ Continue(c, [c EXCEPT !.pc = "finish"])
  /\ ret' = [op |-> "cycle.save", root |-> c.root, id |-> c.id]
  /\ UNCHANGED <<now, fs, fsOps, watchers, debounceTimers, timerQueue, watchStats,
                 lastGeneratedFiles, watchCache, burst, stopping, armedBefore, failedCycles,
                 completions, lastEvent>>
  /\ UNCHANGED cacheVars
  /\ UNCHANGED runVars

\* processingTimes.push(t), then shift() while more than MaxSamples are held
PushSampleKeepOldest(times, t) ==
  IF Len(times) >= MaxSamples THEN times ELSE Append(times, t)
PushSample(times, t) ==
  LET all == Append(times, t)
  IN IF Len(all) > MaxSamples THEN SubSeq(all, Len(all) - MaxSamples + 1, Len(all))
     ELSE all

\* processingTimes.reduce((a, b) => a + b, 0) / processingTimes.length
Average(times) == Quotient(Sum(times), Len(times))

\* the statistics update at the end of processChanges
RecordSample(stats, t) ==
  LET kept == PushSample(stats.processingTimes, t)
  IN [stats EXCEPT !.processingTimes = kept,
                   !.averageProcessingTime = Average(kept)]

\* processChanges after generateOutput returned: the statistics
CycleFinish(c) ==
  /\ c \in cycles
  /\ c.pc = "finish"
  /\ watchStats' = RecordSample(watchStats, now - c.startTime)
  /\ completions' = Append(completions, now - c.startTime)
  /\ cycles' = cycles \ {c}
  /\ ret' = [op |-> "cycle.finish", root |-> c.root, id |-> c.id,
             steps |-> c.steps]
  /\ UNCHANGED <<now, fs, disk, fsOps, watchers, debounceTimers, timerQueue,
                 lastGeneratedFiles, watchCache, burst, stopping, armedBefore, failedCycles,
                 lastEvent>>
  /\ UNCHANGED cacheVars
  /\ UNCHANGED runVars

NextWatch ==
  \/ TickW
  \/ \E inc \in BOOLEAN, ok \in BOOLEAN : StartWatching(MainRoot, inc, ok)
  \/ \E e \in EventTypes, f \in Paths : HandleFileChange(e, f, MainRoot)
  \/ \E t \in timerQueue : TimerFire(t)
  \/ \E c \in cycles : CycleEnumerate(c)
  \/ \E c \in cycles : CycleDiff(c)
  \/ \E c \in cycles : CycleGenerate(c)
  \/ \E c \in cycles : CycleUpdateCache(c)
  \/ \E c \in cycles : CycleSave(c)
  \/ \E c \in cycles : CycleFinish(c)

SpecWatch == Init /\ [][NextWatch]_vars

\* ---------------------------------------------- stopping a watch session
\* chokidar calls the handlers startWatching registered: only for a root
\* with a watcher, and not after that watcher's close() has resolved
WatchEvent(e, f, r) ==
  /\ r \in watchers
  /\ r \notin stopping.closed
  /\ HandleFileChange(e, f, r)

\* clearTimeout and delete of a root's handle, when the root has one
DropHandleKeepTimer(queue, handles, r) == [queue |-> queue, handles |-> MapDelete(handles, r)]
DropTimer(queue, handles, r) ==
  IF r \in DOMAIN handles
    THEN [queue |-> ClearTimeout(queue, handles[r]), handles |-> MapDelete(handles, r)]
  ELSE [queue |-> queue, handles |-> handles]

\* stopWatching(arg) up to its first await: a watched root takes the first
\* branch, anything else (no argument, or a root without watcher) stops all
StopCall(arg) ==
  /\ stopping.pc = "idle"
  /\ IF arg # NoRoot /\ arg \in watchers
       THEN /\ stopping' = [pc |-> "closing", arg |-> arg, branch |-> "one",
                            current |-> arg, closed |-> {},
                            mark |-> watchStats.totalChanges]
            /\ ret' = [op |-> "stopWatching.call", arg |-> arg]
            /\ UNCHANGED <<watchers, debounceTimers>>
     ELSE IF watchers = {}
       THEN /\ debounceTimers' = EmptyMap
            /\ stopping' = NotStopping
            /\ ret' = [op |-> "stopWatching", arg |-> arg, stopped |-> {}]
            /\ UNCHANGED watchers
     ELSE /\ \E first \in watchers :
               stopping' = [pc |-> "closing", arg |-> arg, branch |-> "all",
                            current |-> first, closed |-> {},
                            mark |-> watchStats.totalChanges]
          /\ ret' = [op |-> "stopWatching.call", arg |-> arg]
          /\ UNCHANGED <<watchers, debounceTimers>>
  /\ UNCHANGED <<now, fs, disk, fsOps, timerQueue, watchStats, lastGeneratedFiles,
                 watchCache, cycles, burst, armedBefore, failedCycles,
                 completions, lastEvent>>
  /\ UNCHANGED cacheVars
  /\ UNCHANGED runVars

\* the processChanges calls in flight when stopWatching is done with a root:
\* stopWatching has no handle on them
InFlightAfterStopOthers(running, r) == {c \in running : c.root # r}
InFlightAfterStop(running, r) == running

\* `await watcher.close()` resolves and stopWatching goes on to its next
\* await, or returns
StopClosed ==
  /\ stopping.pc = "closing"
  /\ cycles' = InFlightAfterStop(cycles, stopping.current)
  /\ LET cur == stopping.current
         dropped == DropTimer(timerQueue, debounceTimers, cur)
         closed == stopping.closed \cup {cur}
         rest == watchers \ closed
     IN /\ timerQueue' = dropped.queue
        /\ IF stopping.branch = "one"
             THEN /\ watchers' = watchers \ {cur}
                  /\ debounceTimers' = dropped.handles
                  /\ stopping' = NotStopping
                  /\ armedBefore' = [armedBefore EXCEPT ![cur] = stopping.mark]
                  /\ ret' = [op |-> "stopWatching", arg |-> stopping.arg,
                             stopped |-> {cur}]
           ELSE IF rest = {}
             THEN /\ watchers' = {}
                  /\ debounceTimers' = EmptyMap
                  /\ stopping' = NotStopping
                  /\ armedBefore' = [r \in Roots |->
                                       IF r \in closed THEN stopping.mark
                                       ELSE armedBefore[r]]
                  /\ ret' = [op |-> "stopWatching", arg |-> stopping.arg,
                             stopped |-> closed]
           ELSE /\ \E next \in rest :
                     stopping' = [stopping EXCEPT !.current = next, !.closed = closed]
                /\ debounceTimers' = dropped.handles
                /\ ret' = [op |-> "stopWatching.closed", arg |-> stopping.arg]
                /\ UNCHANGED <<watchers, armedBefore>>
  /\ UNCHANGED <<now, fs, disk, fsOps, watchStats, lastGeneratedFiles, watchCache,
                 burst, failedCycles, completions, lastEvent>>
  /\ UNCHANGED cacheVars
  /\ UNCHANGED runVars

\* sessions of two roots without cache (incremental: false), every event a
\* change of the first file
NextStop ==
  \/ TickW
  \/ \E r \in Roots : StartWatching(r, FALSE, TRUE)
  \/ \E r \in Roots : WatchEvent("change", 1, r)
  \/ \E t \in timerQueue : TimerFire(t)
  \/ \E arg \in Roots \cup {NoRoot} : StopCall(arg)
  \/ StopClosed

\* a project that holds every file, and an enabled store
InitStop == Init /\ DOMAIN fs = Paths /\ enabled

SpecStop == InitStop /\ [][NextStop]_vars

\* one session of the first root without cache, from startWatching through
\* its events and cycles to stopWatching, and again
NextSession ==
  \/ TickW
  \/ StartWatching(MainRoot, FALSE, TRUE)
  \/ \E e \in EventTypes : WatchEvent(e, 1, MainRoot)
  \/ \E t \in timerQueue : TimerFire(t)
  \/ \E c \in cycles : CycleEnumerate(c)
  \/ \E c \in cycles : CycleGenerate(c)
  \/ \E c \in cycles : CycleFinish(c)
  \/ \E arg \in {MainRoot, NoRoot} : StopCall(arg)
  \/ StopClosed

SpecSession == InitStop /\ [][NextSession]_vars

\* ------------------------------------------------- errors in a watch session
\* the awaits of processChanges that can reject: loadConfig and
\* getFilteredFiles, and generateText inside generateOutput
ThrowingSteps == {"enumerate", "generate"}

\* the session after the rejection of processChanges reached the timer
\* callback: its try/catch logs the error, nothing else happens
TimerCallbackNoCatch(ws, handles, queue) ==
  [watchers |-> {}, handles |-> EmptyMap, queue |-> {}, escaped |-> TRUE]
TimerCallback(ws, handles, queue) ==
  [watchers |-> ws, handles |-> handles, queue |-> queue, escaped |-> FALSE]

\* an await of cycle c throws: the catch of processChanges logs and rethrows
\* (no statistics), and the rejection arrives in the timer callback
CycleThrow(c) ==
  /\ c \in cycles
  /\ c.pc \in ThrowingSteps
  /\ cycles' = cycles \ {c}
  /\ failedCycles' = failedCycles \cup {c.id}
  /\ LET after == TimerCallback(watchers, debounceTimers, timerQueue)
     IN /\ watchers' = after.watchers
        /\ debounceTimers' = after.handles
        /\ timerQueue' = after.queue
        /\ ret' = [op |-> "processChanges.rejected", root |-> c.root, id |-> c.id,
                   step |-> c.pc, steps |-> c.steps, escaped |-> after.escaped]
  /\ UNCHANGED <<now, fs, disk, fsOps, watchStats, lastGeneratedFiles, watchCache,
                 burst, stopping, armedBefore, completions, lastEvent>>
  /\ UNCHANGED cacheVars
  /\ UNCHANGED runVars

\* the awaits of startWatching that can reject, in their order
StartSteps == <<"loadConfig", "getFilteredFiles", "generateOutput", "watch">>
StepIndex(step) == CHOOSE i \in DOMAIN StartSteps : StartSteps[i] = step

\* this.watchers.set(watchPath, watcher) is the last statement of the try
\* block: a startWatching that threw has not reached it
RegisteredFirst(ws, watchPath) == ws \cup {watchPath}
RegisteredLast(ws, watchPath) == ws

\* startWatching(watchPath) throws at one of its awaits: what ran before it
\* stays done, the catch logs and rethrows
StartWatchingFails(watchPath, step) ==
  /\ watchPath \notin watchers
  /\ stopping.pc = "idle"
  /\ LET initialFiles == GetFiles(fs)
         listed == StepIndex(step) > StepIndex("getFilteredFiles")
         written == StepIndex(step) > StepIndex("generateOutput")
     IN /\ lastGeneratedFiles' = IF listed THEN Range(initialFiles)
                                 ELSE lastGeneratedFiles
        /\ watchStats' = IF listed
                           THEN [watchStats EXCEPT !.filesWatched = Len(initialFiles)]
                         ELSE watchStats
        /\ generated' = IF written THEN initialFiles ELSE generated
        /\ processed' = IF written THEN processed \cup Written(initialFiles, fs)
                        ELSE processed
  /\ watchers' = RegisteredLast(watchers, watchPath)
  /\ ret' = [op |-> "startWatching.failed", root |-> watchPath, step |-> step,
             thrown |-> TRUE]
  /\ UNCHANGED <<now, fs, disk, fsOps, debounceTimers, timerQueue, watchCache, cycles,
                 burst, stopping, armedBefore, failedCycles,
                 completions, lastEvent>>
  /\ UNCHANGED cacheVars
  /\ UNCHANGED <<runPc, runOpts, hasCache, files, changeInfo, changedFiles, pi>>

\* sessions of two roots without cache in which any await may fail
NextFail ==
  \/ TickW
  \/ \E r \in Roots : StartWatching(r, FALSE, TRUE)
  \/ \E r \in Roots, step \in Range(StartSteps) : StartWatchingFails(r, step)
  \/ \E r \in Roots : WatchEvent("change", 1, r)
  \/ \E t \in timerQueue : TimerFire(t)
  \/ \E c \in cycles : CycleEnumerate(c)
  \/ \E c \in cycles : CycleGenerate(c)
  \/ \E c \in cycles : CycleFinish(c)
  \/ \E c \in cycles : CycleThrow(c)

SpecFail == InitStop /\ [][NextFail]_vars

\* ------------------------------------------------ the statistics of many cycles
\* the processing times a call may measure, in milliseconds
Durations == {1, 2}

\* await watcher.processChanges(MainRoot, 'change', file), called on its own
\* and run to its end: the listing, the generation of every file, and the
\* statistics with the time d that Date.now() - startTime gave
CallProcessChanges(d) ==
  /\ Len(completions) < MaxCycles
  /\ cycles = {}
  /\ LET currentFiles == GetFiles(fs)
     IN /\ lastGeneratedFiles' = Range(currentFiles)
        /\ generated' = currentFiles
        /\ processed' = processed \cup Written(currentFiles, fs)
        /\ watchStats' = RecordSample([watchStats EXCEPT
                                         !.filesWatched = Len(currentFiles)], d)
  /\ completions' = Append(completions, d)
  /\ ret' = [op |-> "processChanges", root |-> MainRoot, time |-> d]
  /\ UNCHANGED <<now, fs, disk, fsOps, watchers, debounceTimers, timerQueue,
                 watchCache, cycles, burst, stopping, armedBefore, failedCycles,
                 lastEvent>>
  /\ UNCHANGED cacheVars
  /\ UNCHANGED <<runPc, runOpts, hasCache, files, changeInfo, changedFiles, pi>>

\* the same call when generateOutput throws: the file tracking is done, the
\* statistics are not
CallProcessChangesFails ==
  /\ Len(completions) < MaxCycles
  /\ cycles = {}
  /\ ret.op # "processChanges.failed"
  /\ LET currentFiles == GetFiles(fs)
     IN /\ lastGeneratedFiles' = Range(currentFiles)
        /\ watchStats' = [watchStats EXCEPT !.filesWatched = Len(currentFiles)]
  /\ ret' = [op |-> "processChanges.failed", root |-> MainRoot]
  /\ UNCHANGED <<now, fs, disk, fsOps, watchers, debounceTimers, timerQueue,
                 watchCache, cycles, burst, stopping, armedBefore, failedCycles,
                 completions, lastEvent>>
  /\ UNCHANGED cacheVars
  /\ UNCHANGED runVars

NextStats ==
  \/ \E d \in Durations : CallProcessChanges(d)
  \/ CallProcessChangesFails

SpecStats == InitStop /\ [][NextStats]_vars

\* ------------------------------------------------ the watcher's ignore patterns
\* a string is the sequence of its characters
NodeModules == <<"n", "o", "d", "e", "_", "m", "o", "d", "u", "l", "e", "s">>
Dist == <<"d", "i", "s", "t">>
DotGit == <<".", "g", "i", "t">>
Src == <<"s", "r", "c">>
ALog == <<"a", ".", "l", "o", "g">>
DSStore == <<".", "D", "S", "_", "S", "t", "o", "r", "e">>
TJs == <<"t", ".", "j", "s">>

\* the names a path is built from here
SegmentNames == {NodeModules, Dist, DotGit, Src, ALog, DSStore, TJs}

Slash == "/"
Backslash == "\\"
DoubleStar == <<"*", "*">>

\* the entries of DEFAULT_WATCH_IGNORES for a directory and for a file name
DirPattern(name) == DoubleStar \o <<Slash>> \o name \o <<Slash>> \o DoubleStar
FilePattern(name) == DoubleStar \o <<Slash>> \o name

StarDotLog == <<"*", ".", "l", "o", "g">>

DEFAULT_WATCH_IGNORES ==
  <<DirPattern(NodeModules), DirPattern(Dist), DirPattern(DotGit),
    FilePattern(StarDotLog), FilePattern(DSStore)>>

\* the paths of up to MaxSegments names
SegmentLists == UNION {[1..n -> SegmentNames] : n \in 1..MaxSegments}

RECURSIVE Join(_, _)
Join(segments, sep) ==
  IF Len(segments) = 1 THEN Head(segments)
  ELSE Head(segments) \o <<sep>> \o Join(Tail(segments), sep)

StartsWith(s, prefix) ==
  Len(s) >= Len(prefix) /\ SubSeq(s, 1, Len(prefix)) = prefix

\* String.prototype.replace with a global regex of a literal text: every
\* occurrence, left to right, without overlap
RECURSIVE ReplaceAll(_, _, _)
ReplaceAll(s, from, to) ==
  IF Len(s) = 0 THEN <<>>
  ELSE IF StartsWith(s, from)
    THEN to \o ReplaceAll(SubSeq(s, Len(from) + 1, Len(s)), from, to)
  ELSE <<Head(s)>> \o ReplaceAll(Tail(s), from, to)

\* the placeholder text that stands for ** between two replacements, as one
\* symbol
Placeholder == <<"DOUBLE_STAR">>

\* matchesPattern: the five replacements that turn the pattern into the source
\* of a regular expression, in the order they are applied
RegexPattern(normalizedPattern) ==
  LET r1 == ReplaceAll(normalizedPattern, DoubleStar, Placeholder)
      r2 == ReplaceAll(r1, <<"*">>, <<"[", "^", "/", "]", "*">>)
      r3 == ReplaceAll(r2, Placeholder, <<".", "*">>)
      r4 == ReplaceAll(r3, <<"?">>, <<"[", "^", "/", "]">>)
      r5 == ReplaceAll(r4, <<".">>, <<Backslash, ".">>)
  IN r5

\* the first atom of the source of a regular expression: the class [^/], an
\* escaped character, the dot, or a character that stands for itself
FirstAtom(re) ==
  IF StartsWith(re, <<"[", "^", "/", "]">>) THEN [kind |-> "notSlash", ch |-> "", len |-> 4]
  ELSE IF Head(re) = Backslash /\ Len(re) >= 2
    THEN [kind |-> "literal", ch |-> re[2], len |-> 2]
  ELSE IF Head(re) = "." THEN [kind |-> "any", ch |-> "", len |-> 1]
  ELSE [kind |-> "literal", ch |-> Head(re), len |-> 1]

AtomMatches(atom, c) ==
  CASE atom.kind = "notSlash" -> c # Slash
    [] atom.kind = "any" -> TRUE
    [] atom.kind = "literal" -> c = atom.ch

\* new RegExp(`^${re}$`).test(s)
RECURSIVE RegexTest(_, _)
RegexTest(re, s) ==
  IF Len(re) = 0 THEN Len(s) = 0
  ELSE LET atom == FirstAtom(re)
           starred == Len(re) > atom.len /\ re[atom.len + 1] = "*"
           rest == SubSeq(re, atom.len + (IF starred THEN 2 ELSE 1), Len(re))
       IN IF starred
            THEN IF RegexTest(rest, s) THEN TRUE
                 ELSE IF Len(s) > 0 /\ AtomMatches(atom, Head(s))
                   THEN RegexTest(re, Tail(s))
                 ELSE FALSE
          ELSE IF Len(s) > 0 /\ AtomMatches(atom, Head(s))
            THEN RegexTest(rest, Tail(s))
          ELSE FALSE

\* replace(/\\/g, '/')
Normalize(s) == ReplaceAll(s, <<Backslash>>, <<Slash>>)

\* matchesPattern(filePath, pattern)
MatchesPattern(filePath, pattern) ==
  RegexTest(RegexPattern(Normalize(pattern)), Normalize(filePath))

\* the predicate createIgnoreFunction returns, for a path relative to the
\* working directory and no size limit
Ignore(relativePath) ==
  \E i \in DOMAIN DEFAULT_WATCH_IGNORES :
    MatchesPattern(relativePath, DEFAULT_WATCH_IGNORES[i])

\* watcher.matchesPattern(path, pattern) on a new FileWatcher, for a path of
\* the given names and the i-th default pattern
CallMatchesPattern(segments, sep, i) ==
  /\ ret.op = "constructor"
  /\ LET filePath == Join(segments, sep)
     IN ret' = [op |-> "matchesPattern", segments |-> segments, sep |-> sep,
                pattern |-> i,
                result |-> MatchesPattern(filePath, DEFAULT_WATCH_IGNORES[i]),
                ignored |-> Ignore(filePath)]
  /\ UNCHANGED <<envVars, cacheVars, progVars>>

NextIgnore ==
  \E segments \in SegmentLists, sep \in {Slash, Backslash},
     i \in DOMAIN DEFAULT_WATCH_IGNORES : CallMatchesPattern(segments, sep, i)

SpecIgnore == InitStop /\ [][NextIgnore]_vars

\* ------------------------------------------------------ the --debounce option
\* the characters an option text is written with here
OptionChars == {"0", "2", "5", "m", "s", "x"}

\* what the caller passes: null, undefined, or a text of up to MaxOptionLen
\* characters
OptionTexts == UNION {[1..n -> OptionChars] : n \in 0..MaxOptionLen}
OptionInputs ==
  {[kind |-> "null"], [kind |-> "undefined"]} \cup
  {[kind |-> "string", chars |-> t] : t \in OptionTexts}

DecimalDigits == <<"0", "1", "2", "3", "4", "5", "6", "7", "8", "9">>
IsDigit(c) == \E i \in DOMAIN DecimalDigits : DecimalDigits[i] = c
DigitValue(c) == (CHOOSE i \in DOMAIN DecimalDigits : DecimalDigits[i] = c) - 1

\* the length of the longest run of digits s starts with: what (\d+) takes,
\* and keeps, since no unit starts with a digit
RECURSIVE DigitRun(_)
DigitRun(s) ==
  IF Len(s) > 0 /\ IsDigit(Head(s)) THEN 1 + DigitRun(Tail(s)) ELSE 0

\* debounceStr.match(/^(\d+)(ms|s)?$/): the two groups, or no match
DebounceMatch(s) ==
  LET n == DigitRun(s)
      unit == SubSeq(s, n + 1, Len(s))
  IN IF n >= 1 /\ unit \in {<<>>, <<"m", "s">>, <<"s">>}
       THEN [matched |-> TRUE, digits |-> SubSeq(s, 1, n), unit |-> unit]
     ELSE [matched |-> FALSE]

\* parseInt(digits, 10)
RECURSIVE ParseInt(_)
ParseInt(digits) ==
  IF Len(digits) = 0 THEN 0
  ELSE ParseInt(SubSeq(digits, 1, Len(digits) - 1)) * 10
       + DigitValue(digits[Len(digits)])

\* unit === 's' ? value * 1000 : value, with the unit defaulting to 'ms'
InUnitAlwaysSeconds(value, unit) == value * 1000
InUnit(value, unit) ==
  LET u == IF unit = <<>> THEN <<"m", "s">> ELSE unit
  IN IF u = <<"s">> THEN value * 1000 ELSE value

\* parseDebounceOption(debounceStr): the delay, or the error it throws
ParseDebounceOption(input) ==
  IF input.kind # "string" \/ Len(input.chars) = 0
    THEN [threw |-> FALSE, value |-> 1000]
  ELSE LET match == DebounceMatch(input.chars)
       IN IF ~match.matched THEN [threw |-> TRUE]
          ELSE [threw |-> FALSE,
                value |-> InUnit(ParseInt(match.digits), match.unit)]

CallParseDebounceOption(input) ==
  /\ ret.op = "constructor"
  /\ ret' = [op |-> "parseDebounceOption", input |-> input,
             result |-> ParseDebounceOption(input)]
  /\ UNCHANGED <<envVars, cacheVars, progVars>>

NextDebounce == \E input \in OptionInputs : CallParseDebounceOption(input)

SpecDebounce == InitStop /\ [][NextDebounce]_vars

\* ------------------------------------------------ the steps of one watch cycle
\* an incremental session of the first root in which the project changes and
\* a cycle may fail
NextCycle ==
  \/ TickW
  \/ \E f \in Paths : WriteFile(f, "v2")
  \/ \E ok \in BOOLEAN : StartWatching(MainRoot, TRUE, ok)
  \/ WatchEvent("change", 1, MainRoot)
  \/ \E t \in timerQueue : TimerFire(t)
  \/ \E c \in cycles : CycleEnumerate(c)
  \/ \E c \in cycles : CycleDiff(c)
  \/ \E c \in cycles : CycleGenerate(c)
  \/ \E c \in cycles : CycleUpdateCache(c)
  \/ \E c \in cycles : CycleSave(c)
  \/ \E c \in cycles : CycleFinish(c)
  \/ \E c \in cycles : CycleThrow(c)

SpecCycle == InitStop /\ [][NextCycle]_vars

\* ------------------------------------------------- a cycle and its trigger
\* the files generateOutput passes to generateText in a cycle that meets no
\* other activity: the listing, cut down to the changed files by the cache
FilesToProcess(changeType, cached, en, md, fsys) ==
  LET currentFiles == GetFiles(fsys)
  IN IF DiffsFirst(cached, changeType)
       THEN GetChangedFiles(en, md, fsys, currentFiles).changed
     ELSE currentFiles

\* generateOutput(files, changeType): the files it passes to generateText
FilesOfGenerateOutput(passed, changeType, cached, en, md, fsys) ==
  IF DiffsFirst(cached, changeType)
    THEN GetChangedFiles(en, md, fsys, passed).changed
  ELSE passed

\* processChanges with smartDiff: the files of the listing that the last
\* listing did not hold, and the files of the last listing that are gone
NewFiles(currentFiles, last) == SelectSeq(currentFiles, LAMBDA f : f \notin last)
RemovedFiles(currentFiles, last) == last \ Range(currentFiles)

\* the structural diff runs with incremental and smartDiff both set
SmartDiffRuns(incremental, smartDiff) == incremental /\ smartDiff

\* what the smartDiff branch logs
SmartDiffLog(incremental, smartDiff, currentFiles, last) ==
  LET newFiles == NewFiles(currentFiles, last)
      removedFiles == RemovedFiles(currentFiles, last)
  IN IF SmartDiffRuns(incremental, smartDiff)
          /\ (Len(newFiles) > 0 \/ Cardinality(removedFiles) > 0)
       THEN <<[added |-> Len(newFiles), removed |-> Cardinality(removedFiles)]>>
     ELSE <<>>

\* filesToProcess as processChanges hands it to generateOutput
FilesPassedNewOnly(incremental, smartDiff, currentFiles, last) ==
  IF SmartDiffRuns(incremental, smartDiff)
       /\ Len(NewFiles(currentFiles, last)) > 0
    THEN NewFiles(currentFiles, last)
  ELSE currentFiles
FilesPassed(incremental, smartDiff, currentFiles, last) ==
  LET newFiles == NewFiles(currentFiles, last)
      removedFiles == RemovedFiles(currentFiles, last)
  IN IF SmartDiffRuns(incremental, smartDiff)
       THEN IF Len(newFiles) > 0 \/ Cardinality(removedFiles) > 0
              THEN currentFiles
            ELSE currentFiles
     ELSE currentFiles

\* await watcher.processChanges(MainRoot, eventType, filePath) of a watcher
\* with config.smartDiff as given, run from its start to its end while nothing
\* else happens
ProcessChangesConfigured(smartDiff, eventType, filePath) ==
  /\ Len(completions) < MaxEvents
  /\ cycles = {}
  /\ LET currentFiles == GetFiles(fs)
         passed == FilesPassed(watchCache, smartDiff, currentFiles,
                               lastGeneratedFiles)
         toProcess == FilesOfGenerateOutput(passed, eventType, watchCache,
                                            enabled, metadata, fs)
         skipped == DiffsFirst(watchCache, eventType) /\ Len(toProcess) = 0
         updates == watchCache /\ ~skipped
         md == IF updates THEN UpdateAll(enabled, metadata, fs, now, toProcess)
               ELSE metadata
         sn == IF updates
                 THEN UpdateAllSnapshots(enabled, snapshot, fs, now, toProcess,
                                         WatchProcessedAt(now))
               ELSE snapshot
     IN /\ lastGeneratedFiles' = Range(currentFiles)
        /\ generated' = IF skipped THEN generated ELSE toProcess
        /\ processed' = IF skipped THEN processed
                        ELSE processed \cup Written(toProcess, fs)
        /\ metadata' = md
        /\ snapshot' = sn
        /\ disk' = IF updates THEN Save(enabled, md, sn, relationships, disk)
                   ELSE disk
        /\ watchStats' = RecordSample([watchStats EXCEPT
                                         !.filesWatched = Len(currentFiles)], 0)
        /\ ret' = [op |-> "processChanges", root |-> MainRoot,
                   eventType |-> eventType, path |-> filePath,
                   files |-> toProcess, skipped |-> skipped,
                   smartDiff |-> smartDiff, passed |-> passed,
                   log |-> SmartDiffLog(watchCache, smartDiff, currentFiles,
                                        lastGeneratedFiles)]
  /\ completions' = Append(completions, 0)
  /\ UNCHANGED <<now, fs, fsOps, enabled, relationships, watchers, debounceTimers,
                 timerQueue, watchCache, cycles, burst, stopping, armedBefore,
                 failedCycles, lastEvent>>
  /\ UNCHANGED <<runPc, runOpts, hasCache, files, changeInfo, changedFiles, pi>>

\* smartDiff: options.smartDiff || false
ProcessChangesAtOnce(eventType, filePath) ==
  ProcessChangesConfigured(FALSE, eventType, filePath)

\* a session of the first root, and between the cycles the project changes
NextTrigger ==
  \/ TickW
  \/ \E f \in Paths, c \in Contents : WriteFile(f, c)
  \/ \E f \in Paths : Unlink(f)
  \/ \E inc \in BOOLEAN : StartWatching(MainRoot, inc, TRUE)
  \/ \E e \in EventTypes, f \in Paths : ProcessChangesAtOnce(e, f)

SpecTrigger == InitStop /\ [][NextTrigger]_vars

\* ----------------------------------------------- lib/cache.js: processIncremental
\* a relationships blob some analysis produced
Blobs == {"graph"}

\* what JavaScript takes for true in `a || b`, among the values met here
Truthy(v) == v \notin {"null", "undefined", ""}

\* getCachedRelationships()
GetCachedRelationships(en, rel) == IF ~en THEN "null" ELSE rel

\* await cache.updateRelationshipsCache(blob)
CallUpdateRelationshipsCache(blob) ==
  /\ pi.pc = "idle"
  /\ IF ~enabled \/ ~Truthy(blob)
       THEN UNCHANGED <<relationships, disk>>
     ELSE /\ relationships' = blob
          /\ disk' = SaveRelationships(enabled, blob, disk)
  /\ ret' = [op |-> "updateRelationshipsCache"]
  /\ UNCHANGED progVars
  /\ UNCHANGED <<enabled, metadata, snapshot, now, fs, fsOps>>

\* what `await processor(list)` returns
ProcessorResult(list) == [from |-> "processor", args |-> list]
\* cache.getCachedRelationships() || await processor([])
CachedOrEmptyRun(en, rel) ==
  LET cached == GetCachedRelationships(en, rel)
  IN IF Truthy(cached)
       THEN [result |-> [from |-> "cache", blob |-> cached], calls |-> <<>>]
     ELSE [result |-> ProcessorResult(<<>>), calls |-> << <<>> >>]

\* the statement that follows each await of processIncremental
PiNextUpdatesFirst(pc) ==
  CASE pc = "cleanup" -> "updateFileCache"
    [] pc = "updateFileCache" -> "processor"
    [] pc = "processor" -> "save"
    [] pc = "save" -> "idle"
PiNext(pc) ==
  CASE pc = "cleanup" -> "processor"
    [] pc = "processor" -> "updateFileCache"
    [] pc = "updateFileCache" -> "save"
    [] pc = "save" -> "idle"

\* the call goes on with the step after pi.pc; after the last one it returns
PiContinue(calls) ==
  LET next == PiNext(pi.pc)
      trace == Append(pi.trace, pi.pc)
  IN IF next = "idle"
       THEN /\ pi' = NoCall
            /\ ret' = [op |-> "processIncremental", enabled |-> TRUE, threw |-> FALSE,
                       changed |-> pi.changed, deleted |-> pi.deleted,
                       result |-> ProcessorResult(pi.changed),
                       calls |-> calls, trace |-> trace]
     ELSE /\ pi' = [pi EXCEPT !.pc = next, !.calls = calls, !.trace = trace]
          /\ ret' = [op |-> "processIncremental.step", step |-> pi.pc]

\* processIncremental(allFiles, cache, processor) up to its first await after
\* the diff: a disabled cache processes everything, an empty ChangeSet
\* returns at once
PiStart(allFiles) ==
  /\ pi.pc = "idle"
  /\ LET info == GetChangedFiles(enabled, metadata, fs, allFiles)
     IN IF ~enabled
          THEN /\ pi' = NoCall
               /\ ret' = [op |-> "processIncremental", enabled |-> FALSE,
                          threw |-> FALSE, changed |-> allFiles, deleted |-> <<>>,
                          result |-> ProcessorResult(allFiles),
                          calls |-> <<allFiles>>, trace |-> <<"processor">>]
        ELSE IF Len(info.changed) = 0 /\ Len(info.deleted) = 0
          THEN LET out == CachedOrEmptyRun(enabled, relationships)
               IN /\ pi' = NoCall
                  /\ ret' = [op |-> "processIncremental", enabled |-> TRUE,
                             threw |-> FALSE, changed |-> <<>>, deleted |-> <<>>,
                             result |-> out.result, calls |-> out.calls,
                             trace |-> <<>>]
        ELSE /\ pi' = [pc |-> "cleanup", files |-> allFiles,
                       changed |-> info.changed, deleted |-> info.deleted,
                       calls |-> <<>>, trace |-> <<>>]
             /\ ret' = [op |-> "processIncremental.step", step |-> "diff"]
  /\ UNCHANGED <<runPc, runOpts, hasCache, files, changeInfo, changedFiles, generated,
                 processed>>
  /\ UNCHANGED watchVars
  /\ UNCHANGED envVars
  /\ UNCHANGED cacheVars

\* await cache.cleanup(deleted)
PiCleanup ==
  /\ pi.pc = "cleanup"
  /\ IF ~enabled \/ Len(pi.deleted) = 0
       THEN UNCHANGED <<metadata, snapshot, disk>>
     ELSE /\ metadata' = MapDeleteAll(metadata, Range(pi.deleted))
          /\ snapshot' = MapDeleteAll(snapshot, Range(pi.deleted))
          /\ disk' = SaveSnapshot(enabled, snapshot',
                        SaveMetadata(enabled, metadata', disk))
  /\ PiContinue(pi.calls)
  /\ UNCHANGED <<runPc, runOpts, hasCache, files, changeInfo, changedFiles, generated,
                 processed>>
  /\ UNCHANGED watchVars
  /\ UNCHANGED <<enabled, relationships, now, fs, fsOps>>

\* const result = await processor(changed): it returns, or it throws and
\* processIncremental rejects
PiProcessor(throws) ==
  /\ pi.pc = "processor"
  /\ IF throws
       THEN /\ pi' = NoCall
            /\ ret' = [op |-> "processIncremental", enabled |-> TRUE, threw |-> TRUE,
                       changed |-> pi.changed, deleted |-> pi.deleted,
                       calls |-> Append(pi.calls, pi.changed),
                       trace |-> Append(pi.trace, "processor")]
     ELSE PiContinue(Append(pi.calls, pi.changed))
  /\ UNCHANGED <<runPc, runOpts, hasCache, files, changeInfo, changedFiles, generated,
                 processed>>
  /\ UNCHANGED watchVars
  /\ UNCHANGED envVars
  /\ UNCHANGED cacheVars

\* for (const filePath of changed) await cache.updateFileCache(filePath, ...)
PiUpdateFileCache ==
  /\ pi.pc = "updateFileCache"
  /\ metadata' = UpdateAll(enabled, metadata, fs, now, pi.changed)
  /\ snapshot' = UpdateAllSnapshots(enabled, snapshot, fs, now, pi.changed, Processed)
  /\ PiContinue(pi.calls)
  /\ UNCHANGED <<runPc, runOpts, hasCache, files, changeInfo, changedFiles, generated,
                 processed>>
  /\ UNCHANGED watchVars
  /\ UNCHANGED <<enabled, relationships>>
  /\ UNCHANGED envVars

\* await cache.save(); return result
PiSave ==
  /\ pi.pc = "save"
  /\ disk' = Save(enabled, metadata, snapshot, relationships, disk)
  /\ PiContinue(pi.calls)
  /\ UNCHANGED <<runPc, runOpts, hasCache, files, changeInfo, changedFiles, generated,
                 processed>>
  /\ UNCHANGED watchVars
  /\ UNCHANGED <<now, fs, fsOps>>
  /\ UNCHANGED cacheVars

\* a store that is initialized, fed relationships and used through
\* processIncremental while the project changes
NextIncremental ==
  \/ Tick
  \/ \E f \in Paths, c \in Contents : WriteFile(f, c)
  \/ \E f \in Paths : Unlink(f)
  \/ \E ok \in BOOLEAN : pi.pc = "idle" /\ Initialize(ok)
  \/ \E blob \in Blobs : CallUpdateRelationshipsCache(blob)
  \/ \E l \in FileLists : PiStart(l)
  \/ PiCleanup
  \/ \E throws \in BOOLEAN : PiProcessor(throws)
  \/ PiUpdateFileCache
  \/ PiSave

SpecIncremental == Init /\ [][NextIncremental]_vars

\* ------------------------------------------ startWatching, await by await
\* chokidar.watch(...) and this.watchers.set(...) come after the await named
\* here has returned
SubscribesAfterListing(step) == step = "getFilteredFiles"
SubscribesAfter(step) == step = "generateOutput"

\* the watchers once startWatching has got past an await
WatchersAfter(step, watchPath) ==
  IF SubscribesAfter(step) THEN watchers \cup {watchPath} ELSE watchers

\* startWatchMode(watchPath, options): a new FileWatcher, once the one before
\* it has stopped and is done, and its startWatching up to the await of
\* generateOutput(initialFiles, 'initial')
StartBegin(watchPath, incremental, mkdirOk) ==
  /\ watchers = {}
  /\ cycles = {}
  /\ timerQueue = {}
  /\ stopping.pc = "idle"
  /\ LET made == CreateCache(TRUE, disk, mkdirOk)
         c == IF incremental THEN made.cache ELSE ThisCache
         initialFiles == GetFiles(fs)
         info == GetChangedFiles(c.enabled, c.metadata, fs, initialFiles)
     IN /\ watchCache' = incremental
        /\ lastGeneratedFiles' = Range(initialFiles)
        /\ watchStats' = [watchStats EXCEPT !.filesWatched = Len(initialFiles)]
        /\ enabled' = c.enabled
        /\ metadata' = c.metadata
        /\ snapshot' = c.snapshot
        /\ relationships' = c.relationships
        /\ disk' = IF incremental THEN made.disk ELSE disk
        /\ cycles' = {[id |-> 0, root |-> watchPath, eventType |-> "initial",
                       pc |-> IF DiffsFirst(incremental, "initial") THEN "diff"
                              ELSE "generate",
                       startTime |-> now, steps |-> <<>>, read |-> EmptyMap,
                       files |-> initialFiles, changed |-> initialFiles,
                       unchanged |-> IF incremental
                                      THEN SelectSeq(initialFiles,
                                             LAMBDA f : f \notin Range(info.changed))
                                    ELSE <<>>]}
  /\ watchers' = WatchersAfter("getFilteredFiles", watchPath)
  /\ ret' = [op |-> "startWatching.call", root |-> watchPath]
  /\ UNCHANGED <<now, fs, fsOps, debounceTimers, timerQueue, burst, stopping,
                 armedBefore, failedCycles, completions, lastEvent>>
  /\ UNCHANGED runVars

\* generateOutput(initialFiles, 'initial') has returned: the watcher is
\* created and registered, and startWatching returns the disposer
StartSubscribe(c) ==
  /\ c \in cycles
  /\ c.eventType = "initial"
  /\ c.pc = "finish"
  /\ cycles' = cycles \ {c}
  /\ watchers' = WatchersAfter("generateOutput", c.root)
  /\ ret' = [op |-> "startWatching.return", root |-> c.root, cached |-> watchCache,
             files |-> c.files, generated |-> c.changed, steps |-> c.steps,
             unchanged |-> c.unchanged,
             saved |-> disk.dir /\ disk.metadata = Json([files |-> ObjectFromEntries(metadata)])]
  /\ UNCHANGED <<now, fs, disk, fsOps, debounceTimers, timerQueue, watchStats,
                 lastGeneratedFiles, watchCache, burst, stopping, armedBefore,
                 failedCycles, completions, lastEvent>>
  /\ UNCHANGED cacheVars
  /\ UNCHANGED runVars

\* the cycles the debounce timers started
Debounced == {c \in cycles : c.eventType \in EventTypes}

\* one watcher after the other on the first root, the first file changing
\* meanwhile
NextStart ==
  \/ TickW
  \/ WriteFile(1, "v2")
  \/ \E inc \in BOOLEAN : StartBegin(MainRoot, inc, TRUE)
  \/ \E c \in cycles : StartSubscribe(c)
  \/ WatchEvent("change", 1, MainRoot)
  \/ \E t \in timerQueue : TimerFire(t)
  \/ \E c \in cycles : CycleEnumerate(c)
  \/ \E c \in cycles : CycleDiff(c)
  \/ \E c \in cycles : CycleGenerate(c)
  \/ \E c \in cycles : CycleUpdateCache(c)
  \/ \E c \in cycles : CycleSave(c)
  \/ \E c \in Debounced : CycleFinish(c)
  \/ StopCall(MainRoot)
  \/ StopClosed

SpecStart == InitStop /\ [][NextStart]_vars

\* ------------------------------------------------------ the smartDiff option
\* a session of the first root whose watcher has smartDiff set or not, files
\* coming and going between the cycles
NextSmart ==
  \/ TickW
  \/ \E f \in Paths : WriteFile(f, "v2")
  \/ \E f \in Paths : Unlink(f)
  \/ \E inc \in BOOLEAN : StartWatching(MainRoot, inc, TRUE)
  \/ \E sd \in BOOLEAN : ProcessChangesConfigured(sd, "change", 1)

SpecSmart == Init /\ [][NextSmart]_vars

\* ------------------------------------------- lib/cache.js: disk I/O that fails
\* try { ... } catch (error) { ... } around a block: whether what the block
\* threw leaves the statement
TryCatchRethrows(thrown) == thrown
TryCatch(thrown) == FALSE

\* the project as fs.stat and fs.readFile show it when they fail on `failing`
Readable(fsys, failing) == [p \in (DOMAIN fsys) \ failing |-> fsys[p]]

\* the cache directory as fs.readFile shows it when it fails on `failing`
ReadableSections(d, failing) ==
  [metadata |-> IF "metadata" \in failing THEN Missing ELSE d.metadata,
   snapshot |-> IF "snapshot" \in failing THEN Missing ELSE d.snapshot,
   relationships |-> IF "relationships" \in failing THEN Missing
                     ELSE d.relationships,
   dir |-> d.dir]

\* getFileHash(filePath) throws
GetFileHashThrows(f, failing) == TryCatch(f \in failing)

\* hasFileChanged(filePath) throws
HasFileChangedThrows(en, md, f, failing) ==
  en /\ f \in DOMAIN md /\ TryCatch(f \in failing)

\* getChangedFiles(allFiles) throws: it has no try of its own
GetChangedFilesThrows(en, md, allFiles, failing) ==
  en /\ \E i \in 1..Len(allFiles) : HasFileChangedThrows(en, md, allFiles[i], failing)

\* updateFileCache(filePath, data) throws: it has no try of its own
UpdateFileCacheThrows(en, f, failing) == en /\ GetFileHashThrows(f, failing)

\* loadMetadata / loadSnapshot / loadRelationships throws
LoadThrows(section, failing) == TryCatch(section \in failing)

\* initialize() throws: the loads run when mkdir succeeded
InitializeThrows(en, mkdirOk, failing) ==
  en /\ TryCatch(~mkdirOk \/ \E s \in Sections : LoadThrows(s, failing))

\* saveMetadata / saveSnapshot / saveRelationships throws: writeFile fails on
\* `failing`, and on every file of a directory that does not exist
SaveSectionThrows(en, section, failing, d) ==
  en /\ TryCatch(section \in failing \/ ~d.dir)

\* save() throws: Promise.all rejects when one of the three rejects
SaveThrows(en, failing, d) ==
  \E s \in Sections : SaveSectionThrows(en, s, failing, d)

\* cleanup(deletedFiles) throws: it has no try of its own
CleanupThrows(en, deletedFiles, failing, d) ==
  /\ en
  /\ Len(deletedFiles) > 0
  /\ \E s \in {"metadata", "snapshot"} : SaveSectionThrows(en, s, failing, d)

\* clear() throws
ClearThrows(en, rmOk) == en /\ TryCatch(~rmOk)

\* the three writes of save(), each started whatever becomes of the others
SaveFailing(failing, en, md, sn, rel, d) ==
  LET d1 == IF "metadata" \in failing THEN d ELSE SaveMetadata(en, md, d)
      d2 == IF "snapshot" \in failing THEN d1 ELSE SaveSnapshot(en, sn, d1)
  IN IF "relationships" \in failing THEN d2 ELSE SaveRelationships(en, rel, d2)

\* await cache.initialize() while mkdir fails or not and readFile fails on
\* `failing`
FailingInitialize(mkdirOk, failing) ==
  /\ SetCache(InitializeCache(ThisCache, ReadableSections(disk, failing),
                              mkdirOk).cache)
  /\ disk' = InitializeCache(ThisCache, disk, mkdirOk).disk
  /\ ret' = [op |-> "io.initialize", failing |-> failing, mkdirOk |-> mkdirOk,
             threw |-> InitializeThrows(enabled, mkdirOk, failing)]
  /\ UNCHANGED progVars
  /\ UNCHANGED <<now, fs, fsOps>>

\* await cache.getChangedFiles(allFiles) while stat fails on `failing`
FailingGetChangedFiles(allFiles, failing) ==
  /\ ret' = [op |-> "io.getChangedFiles", failing |-> failing, files |-> allFiles,
             threw |-> GetChangedFilesThrows(enabled, metadata, allFiles, failing),
             value |-> GetChangedFiles(enabled, metadata, Readable(fs, failing),
                                       allFiles)]
  /\ UNCHANGED progVars
  /\ UNCHANGED envVars
  /\ UNCHANGED cacheVars

\* await cache.updateFileCache(f, data) while stat or readFile fails on
\* `failing`
FailingUpdateFileCache(f, failing) ==
  /\ metadata' = UpdateMetadata(enabled, metadata, Readable(fs, failing), now, f)
  /\ snapshot' = UpdateSnapshot(enabled, snapshot, Readable(fs, failing), now, f,
                                Processed)
  /\ ret' = [op |-> "io.updateFileCache", failing |-> failing, path |-> f,
             threw |-> UpdateFileCacheThrows(enabled, f, failing)]
  /\ UNCHANGED progVars
  /\ UNCHANGED <<enabled, relationships>>
  /\ UNCHANGED envVars

\* await cache.cleanup(deletedFiles) while writeFile fails on `failing`
FailingCleanup(deletedFiles, failing) ==
  /\ IF ~enabled \/ Len(deletedFiles) = 0
       THEN UNCHANGED <<metadata, snapshot, disk>>
     ELSE /\ metadata' = MapDeleteAll(metadata, Range(deletedFiles))
          /\ snapshot' = MapDeleteAll(snapshot, Range(deletedFiles))
          /\ disk' = SaveFailing(failing \cup {"relationships"}, enabled,
                                 metadata', snapshot', relationships, disk)
  /\ ret' = [op |-> "io.cleanup", failing |-> failing, before |-> disk,
             threw |-> CleanupThrows(enabled, deletedFiles, failing, disk)]
  /\ UNCHANGED progVars
  /\ UNCHANGED <<enabled, relationships, now, fs, fsOps>>

\* await cache.save() while writeFile fails on `failing`
FailingSave(failing) ==
  /\ disk' = SaveFailing(failing, enabled, metadata, snapshot, relationships, disk)
  /\ ret' = [op |-> "io.save", failing |-> failing, before |-> disk,
             threw |-> SaveThrows(enabled, failing, disk)]
  /\ UNCHANGED progVars
  /\ UNCHANGED <<now, fs, fsOps>>
  /\ UNCHANGED cacheVars

\* await cache.clear() while rm fails or not: the maps are reset after rm, in
\* the same try
FailingClear(rmOk) ==
  /\ IF rmOk
       THEN /\ SetCache(ClearCache(ThisCache, disk).cache)
            /\ disk' = ClearCache(ThisCache, disk).disk
     ELSE /\ UNCHANGED cacheVars
          /\ UNCHANGED disk
  /\ ret' = [op |-> "io.clear", rmOk |-> rmOk, threw |-> ClearThrows(enabled, rmOk)]
  /\ UNCHANGED progVars
  /\ UNCHANGED <<now, fs, fsOps>>

\* a store used while any of its I/O calls may fail
NextIo ==
  \/ \E f \in Paths : WriteFile(f, "v2")
  \/ \E ok \in BOOLEAN, failing \in SUBSET Sections : FailingInitialize(ok, failing)
  \/ \E failing \in SUBSET Paths : FailingGetChangedFiles(SortedSeq(Paths), failing)
  \/ \E f \in Paths : \E failing \in SUBSET {f} : FailingUpdateFileCache(f, failing)
  \/ \E failing \in SUBSET {"metadata", "snapshot"} : FailingCleanup(<<1>>, failing)
  \/ \E failing \in SUBSET Sections : FailingSave(failing)
  \/ \E rmOk \in BOOLEAN : FailingClear(rmOk)

SpecIo == InitStop /\ [][NextIo]_vars

\* ------------------------------------- lib/cache.js: files that cannot be read
\* the project as fs.stat shows it, and as getFileHash (stat, then readFile)
\* gets it, when stat fails on statFails and readFile on readFails
Statable(fsys, statFails) == Readable(fsys, statFails)
Hashable(fsys, statFails, readFails) == Readable(fsys, statFails \cup readFails)

\* await cache.getChangedFiles(allFiles): hasFileChanged calls stat only
CallGetChangedFilesOf(allFiles, statFails, readFails) ==
  /\ ret' = [op |-> "probe.getChangedFiles", files |-> allFiles,
             statFails |-> statFails, readFails |-> readFails,
             value |-> GetChangedFiles(enabled, metadata,
                                       Statable(fs, statFails), allFiles)]
  /\ UNCHANGED progVars
  /\ UNCHANGED envVars
  /\ UNCHANGED cacheVars

\* for (const filePath of changed) await cache.updateFileCache(filePath, data)
CallUpdateFileCacheOf(changed, statFails, readFails) ==
  /\ metadata' = UpdateAll(enabled, metadata,
                           Hashable(fs, statFails, readFails), now, changed)
  /\ snapshot' = UpdateAllSnapshots(enabled, snapshot,
                                    Hashable(fs, statFails, readFails), now,
                                    changed, Processed)
  /\ ret' = [op |-> "probe.updateFileCache", files |-> changed,
             statFails |-> statFails, readFails |-> readFails,
             before |-> [metadata |-> metadata, snapshot |-> snapshot]]
  /\ UNCHANGED progVars
  /\ UNCHANGED <<enabled, relationships>>
  /\ UNCHANGED envVars

\* a store over a project whose files at times cannot be stat'ed or read
NextProbe ==
  \/ Tick
  \/ \E f \in Paths : WriteFile(f, "v2")
  \/ \E f \in Paths : Unlink(f)
  \/ \E statFails \in SUBSET Paths, readFails \in SUBSET Paths :
       CallGetChangedFilesOf(SortedSeq(Paths), statFails, readFails)
  \/ \E statFails \in SUBSET Paths, readFails \in SUBSET Paths :
       CallUpdateFileCacheOf(SortedSeq(Paths), statFails, readFails)

SpecProbe == InitStop /\ [][NextProbe]_vars

\* ------------------------------------------- the files a cycle writes itself
\* DEFAULT_CACHE_DIR and CACHE_FILES.metadata of lib/cache.js
DotDir2txtCache == <<".", "d", "i", "r", "2", "t", "x", "t", "-", "c", "a", "c",
                     "h", "e">>
MetadataJson == <<"m", "e", "t", "a", "d", "a", "t", "a", ".", "j", "s", "o", "n">>

\* path.join(cachePath, CACHE_FILES.metadata) relative to the working
\* directory, which is the watched root
MetadataPath == Join(<<DotDir2txtCache, MetadataJson>>, Slash)

\* the path of that file as an event names it: no project file
CacheFile == NumPaths + 1

\* chokidar leaves out the paths its `ignored` function accepts
Ignored(relativePath) == Ignore(relativePath)

\* chokidar reports the metadata.json that cache.save() has just written
CacheFileEvent ==
  /\ ret.op = "cycle.save"
  /\ enabled
  /\ disk.dir
  /\ ~Ignored(MetadataPath)
  /\ WatchEvent("change", CacheFile, ret.root)

\* an incremental session of the first root in which the first file changes
\* once
NextQuiet ==
  \/ TickW
  \/ WriteFile(1, "v2")
  \/ StartWatching(MainRoot, TRUE, TRUE)
  \/ WatchEvent("change", 1, MainRoot)
  \/ CacheFileEvent
  \/ \E t \in timerQueue : TimerFire(t)
  \/ \E c \in cycles : CycleEnumerate(c)
  \/ \E c \in cycles : CycleDiff(c)
  \/ \E c \in cycles : CycleGenerate(c)
  \/ \E c \in cycles : CycleUpdateCache(c)
  \/ \E c \in cycles : CycleSave(c)
  \/ \E c \in cycles : CycleFinish(c)

SpecQuiet == InitStop /\ [][NextQuiet]_vars

\* ------------------------------------------------------------ claims
NoChanges == [changed |-> <<>>, new |-> <<>>, deleted |-> <<>>]

\* the fingerprint of f is the one updateFileCache would record now
FingerprintCurrent(f) ==
  /\ f \in DOMAIN metadata
  /\ f \in DOMAIN fs
  /\ metadata[f].mtime = ToISOString(fs[f].mtime)
  /\ metadata[f].hash = Sha256(<<fs[f].content, ToISOString(fs[f].mtime)>>)

\* the content of f is not the content its fingerprint was taken from
ContentDiffers(f) ==
  /\ f \in DOMAIN metadata
  /\ f \in DOMAIN fs
  /\ metadata[f].hash # Sha256(<<fs[f].content, metadata[f].mtime>>)

\* every path of the list was cached, nothing else is cached, nothing changed since
Stable(allFiles) ==
  /\ Range(allFiles) = DOMAIN metadata
  /\ \A f \in Range(allFiles) : FingerprintCurrent(f)

\* C4: when every path of allFiles was cached by updateFileCache and neither
\* the file set nor any content or mtime changed since, getChangedFiles
\* returns {changed: [], new: [], deleted: []}, on every call.
C4_StableDiffIsEmpty ==
  (ret.op = "getChangedFiles" /\ Stable(ret.files)) => ret.value = NoChanges

C4_Witness ==
  /\ ret.op = "getChangedFiles"
  /\ enabled
  /\ Len(ret.files) >= 2
  /\ Stable(ret.files)

\* C5: a path of allFiles without a fingerprint is put in changed and in new,
\* and new is a subset of changed on every call, store enabled or not.
C5_NewIsChanged ==
  ret.op = "getChangedFiles" =>
    /\ \A f \in Range(ret.files) :
         f \notin DOMAIN metadata =>
           f \in Range(ret.value.changed) /\ f \in Range(ret.value.new)
    /\ Range(ret.value.new) \subseteq Range(ret.value.changed)

C5_Witness ==
  /\ ret.op = "getChangedFiles"
  /\ enabled
  /\ \E f \in Range(ret.files) : f \notin DOMAIN metadata
  /\ \E f \in Range(ret.files) : f \in DOMAIN metadata /\ f \notin Range(ret.value.new)

\* C6: on an enabled store, deleted is exactly the cached paths that are not
\* in allFiles, and it shares no path with changed, new or allFiles.
C6_DeletedExact ==
  (ret.op = "getChangedFiles" /\ enabled) =>
    /\ Range(ret.value.deleted) = (DOMAIN metadata) \ Range(ret.files)
    /\ Range(ret.value.deleted) \cap Range(ret.value.changed) = {}
    /\ Range(ret.value.deleted) \cap Range(ret.value.new) = {}
    /\ Range(ret.value.deleted) \cap Range(ret.files) = {}

C6_Witness ==
  /\ ret.op = "getChangedFiles"
  /\ enabled
  /\ ret.value.deleted # <<>>
  /\ \E f \in Range(ret.files) : f \in DOMAIN metadata

\* C7: a cached file whose content is no longer the content that was
\* fingerprinted is put in changed, whatever its mtime.
C7_ContentChangeDetected ==
  (ret.op = "getChangedFiles" /\ enabled) =>
    \A f \in Range(ret.files) : ContentDiffers(f) => f \in Range(ret.value.changed)

\* C8: for a cached file, an mtime later than the cached one makes
\* hasFileChanged return true, and an mtime equal to the cached one makes it
\* return false, on every call; the calls leave the cache as it was.
C8_MtimeDecides ==
  /\ [](  (/\ ret.op = "hasFileChanged"
           /\ enabled
           /\ ret.path \in DOMAIN metadata
           /\ ret.path \in DOMAIN fs)
          => (ret.value <=> fs[ret.path].mtime > DateParse(metadata[ret.path].mtime)))
  /\ [][ret'.op = "hasFileChanged" =>
          UNCHANGED <<enabled, metadata, snapshot, relationships, disk>>]_vars

\* a touched file: later mtime, same content, reported as changed
C8_Witness ==
  /\ ret.op = "hasFileChanged"
  /\ enabled
  /\ ret.path \in DOMAIN metadata
  /\ ret.path \in DOMAIN fs
  /\ fs[ret.path].mtime > DateParse(metadata[ret.path].mtime)
  /\ ~ContentDiffers(ret.path)
  /\ ret.value = TRUE

\* C10: while the store is disabled (constructed so, or after fs.mkdir failed
\* in initialize(), which returns normally), getChangedFiles(files) returns
\* changed = files, new = files, deleted = [], and updateFileCache, cleanup,
\* save and clear leave the maps and the cache directory as they were.
C10_DisabledIsInert ==
  /\ []((ret.op = "getChangedFiles" /\ ~enabled) =>
          ret.value = [changed |-> ret.files, new |-> ret.files, deleted |-> <<>>])
  /\ []((ret.op = "initialize" /\ ~ret.mkdirOk) => (~enabled /\ ~ret.threw))
  /\ [][(~enabled /\ ret'.op \in {"updateFileCache", "cleanup", "save", "clear"})
          => UNCHANGED <<enabled, metadata, snapshot, relationships, disk>>]_vars

\* clear() on a self-disabled store that still holds fingerprints, with a
\* saved metadata.json in the directory
C10_Witness ==
  /\ ~enabled
  /\ ret.op = "clear"
  /\ DOMAIN metadata # {}
  /\ disk.dir
  /\ disk.metadata.kind = "json"

\* f was cached and is no longer what was cached: gone, or another mtime,
\* or another content
Modified(f) == f \in DOMAIN metadata /\ ~FingerprintCurrent(f)

\* C2: in an incremental run with the cache enabled, the files handed to
\* generation are exactly the listed files that are new (no fingerprint) or
\* were modified since they were cached; a cached, unmodified file is not
\* handed on.
C2_IncrementalExact ==
  (hasCache /\ enabled /\ runOpts.incremental /\ ~runOpts.clearCache) =>
    /\ ret.op = "run.diff" =>
         \A f \in Range(files) :
           f \in Range(changedFiles) <=> (f \notin DOMAIN metadata \/ Modified(f))
    /\ ret.op = "run.generate" => generated = changedFiles

\* C9: in a run with --clear-cache the ChangeSet reports every listed file as
\* changed and new and no file as deleted, whatever earlier runs persisted.
C9_ClearCacheReportsAllNew ==
  (ret.op = "run.diff" /\ runOpts.clearCache) =>
    changeInfo = [changed |-> files, new |-> files, deleted |-> <<>>]

\* C1: in a burst of handleFileChange calls on one root, each less than the
\* debounce delay after the previous one, no regeneration fires while the
\* burst goes on, and exactly one fires for the burst, once the delay has
\* elapsed since its last call.
C1_DebounceCoalesces ==
  \A r \in Roots :
    /\ burst[r].fires <= 1
    /\ (ret.op = "timerFire" /\ ret.root = r) =>
         (burst[r].fires = 1 /\ now >= burst[r].lastCall + DebounceDelay)
    /\ burst[r].fires = 1 => now >= burst[r].lastCall + DebounceDelay
    /\ (/\ burst[r].len >= 1
        /\ now >= burst[r].lastCall + DebounceDelay
        /\ DueTimers = {}) => burst[r].fires = 1

\* three calls in one burst, one regeneration, started when the delay was over
C1_Witness ==
  \E r \in Roots :
    /\ burst[r].len >= 3
    /\ burst[r].fires = 1
    /\ ret.op = "timerFire"
    /\ now = burst[r].lastCall + DebounceDelay

\* C3: for one root at most one processChanges cycle is in flight at any time,
\* and save() of a cycle is not executed while another cycle of that root is
\* in flight.
C3_CyclesSerialized ==
  \A r \in Roots :
    /\ Cardinality({c \in cycles : c.root = r}) <= 1
    /\ (ret.op = "cycle.save" /\ ret.root = r) =>
         \A c \in cycles : c.root = r => c.id = ret.id

\* what createCache() on the same directory holds
FreshStore == CreateCache(TRUE, disk, TRUE).cache

Failed(doc) == doc.kind \in {"missing", "corrupt"}

\* C12: initialize() of an enabled store, when mkdir succeeds, returns with
\* the store enabled; every fingerprint of a valid metadata.json is loaded
\* whatever the state of snapshot.json and relationships.json; a section
\* whose file is missing or unparseable is empty afterwards, and only that one.
C12_SectionsIsolated ==
  /\ []((ret.op = "initialize" /\ ret.mkdirOk /\ enabled) =>
          /\ ~ret.threw
          /\ (disk.metadata.kind = "json" /\ "files" \in DOMAIN disk.metadata.data)
               => ObjectFromEntries(metadata) = disk.metadata.data.files
          /\ (disk.snapshot.kind = "json" /\ "files" \in DOMAIN disk.snapshot.data)
               => ObjectFromEntries(snapshot) = disk.snapshot.data.files
          /\ Failed(disk.metadata) => metadata = EmptyMap
          /\ Failed(disk.snapshot) => snapshot = EmptyMap
          /\ Failed(disk.relationships) => relationships = RelMap)
  /\ [][(enabled /\ ret'.op = "initialize" /\ ret'.mkdirOk) => enabled']_vars

\* fingerprints loaded next to a corrupt relationships.json
C12_Witness ==
  /\ ret.op = "initialize"
  /\ ret.mkdirOk
  /\ enabled
  /\ disk.relationships = Corrupt
  /\ disk.metadata.kind = "json"
  /\ DOMAIN metadata # {}

\* the steps that call updateFileCache after a generation
UpdateSteps == {"run.updateCache", "cycle.updateCache", "startWatching"}

\* C13: in every mode of the run command and in watch mode, a step that
\* writes or renews the fingerprint of a file does so only for a file whose
\* content a generation of that process has read and written out before.
C13_FingerprintOnlyAfterProcessing ==
  [][ret'.op \in UpdateSteps =>
       \A f \in DOMAIN metadata' :
         (f \notin DOMAIN metadata \/ metadata'[f] # metadata[f]) => f \in processed']_vars

\* C14: when stopWatching returns, no debounce timer of a root it stopped is
\* left armed, and no timer armed before the call fires after the return.
C14_StopCancelsTimers ==
  /\ [](ret.op = "stopWatching" => \A t \in timerQueue : t.root \notin ret.stopped)
  /\ [][ret'.op = "timerFire" => ret'.id > armedBefore[ret'.root]]_vars

\* stop-all returned while both roots had a pending timer at the call
C14_Witness ==
  /\ ret.op = "stopWatching"
  /\ ret.arg = NoRoot
  /\ ret.stopped = Roots
  /\ \A r \in Roots : armedBefore[r] >= 2 /\ r \in DOMAIN burst /\ burst[r].len >= 1
  /\ timerQueue = {}

\* the steps of stopWatching
StopSteps == {"stopWatching.call", "stopWatching.closed", "stopWatching"}

\* the timers of the roots other than r
OtherTimers(queue, r) == {t \in queue : t.root # r}

\* C15: a step of stopWatching(root) leaves the watchers and the pending
\* timers of every other root as they are, and a call for a root that has no
\* watcher (never watched, or stopped already) changes no watcher and no timer.
C15_StopOnlyThatRoot ==
  [][(ret'.op \in StopSteps /\ ret'.arg # NoRoot) =>
       /\ watchers' \ {ret'.arg} = watchers \ {ret'.arg}
       /\ OtherTimers(timerQueue', ret'.arg) = OtherTimers(timerQueue, ret'.arg)]_vars

\* C16: an exception in a debounce-triggered cycle is caught in the timer
\* callback: it does not escape, the watchers and the timers of every root stay
\* as they are, and a later handleFileChange for the root arms a new timer
\* whose firing starts a fresh cycle.
C16_FailedCycleKeepsSession ==
  /\ [][ret'.op = "processChanges.rejected" =>
          /\ ~ret'.escaped
          /\ watchers' = watchers /\ ret'.root \in watchers'
          /\ debounceTimers' = debounceTimers
          /\ timerQueue' = timerQueue]_vars
  /\ [][(ret'.op = "handleFileChange" /\ failedCycles # {}) =>
          \E t \in timerQueue' :
            /\ t.root = ret'.root /\ t.id \notin failedCycles
            /\ debounceTimers'[t.root] = t.id
            /\ t.deadline = now + DebounceDelay]_vars
  /\ [][(ret'.op = "timerFire" /\ failedCycles # {}) =>
          \E c \in cycles' :
            c.id = ret'.id /\ c.id \notin failedCycles /\ c.pc = "enumerate"]_vars

\* a cycle of the first root failed, and a cycle started by a later event of the
\* same root has completed
C16_Witness ==
  /\ ret.op = "cycle.finish"
  /\ ret.root = MainRoot
  /\ \E k \in failedCycles : k < ret.id
  /\ MainRoot \in watchers
  /\ Len(watchStats.processingTimes) = 1

C18_TotalChangesCountsCalls ==
  /\ (ret.op = "constructor" => watchStats.totalChanges = 0)
  /\ [][IF ret'.op = "handleFileChange"
          THEN watchStats'.totalChanges = watchStats.totalChanges + 1
          ELSE watchStats'.totalChanges = watchStats.totalChanges]_vars

\* two events were counted, a cycle completed, and the session was stopped
\* while the timer of the second event was pending
C18_Witness ==
  /\ ret.op = "stopWatching"
  /\ ret.stopped = {MainRoot}
  /\ watchStats.totalChanges = 2
  /\ Len(watchStats.processingTimes) = 1
  /\ armedBefore[MainRoot] = 2

\* the last n elements of s, all of s when it has fewer
LastOf(s, n) == IF Len(s) <= n THEN s ELSE SubSeq(s, Len(s) - n + 1, Len(s))

\* C19: processingTimes holds at most 10 samples, the most recent completed
\* ones in completion order, and averageProcessingTime is the arithmetic mean
\* of exactly those samples, 0 while there are none.
C19_RollingWindowAndMean ==
  LET kept == LastOf(completions, 10)
      avg == watchStats.averageProcessingTime
  IN /\ Len(watchStats.processingTimes) <= 10
     /\ watchStats.processingTimes = kept
     /\ avg.den > 0
     /\ IF Len(kept) = 0 THEN avg.num = 0
        ELSE avg.num * Len(kept) = Sum(kept) * avg.den

\* twelve cycles have completed, and the two oldest samples differ from the
\* two newest
C19_Witness ==
  /\ Len(completions) = 12
  /\ completions[1] = 1 /\ completions[2] = 1
  /\ completions[11] = 2 /\ completions[12] = 2
  /\ ret.op = "processChanges"
  /\ Len(watchStats.processingTimes) = 10

\* a path with a directory of that name at some depth
HasDirectory(segments, name) ==
  \E k \in 1..(Len(segments) - 1) : segments[k] = name

Last(s) == s[Len(s)]

\* what the i-th default pattern is meant to match
OnDenyList(segments, i) ==
  CASE i = 1 -> HasDirectory(segments, NodeModules)
    [] i = 2 -> HasDirectory(segments, Dist)
    [] i = 3 -> HasDirectory(segments, DotGit)
    [] i = 4 -> Last(segments) = ALog
    [] i = 5 -> Last(segments) = DSStore

\* a path none of whose names is on the deny-list
MatchesNoPattern(segments) ==
  \A k \in DOMAIN segments : segments[k] \in {Src, TJs}

\* C20: matchesPattern returns true for a path on the default deny-list and
\* its pattern (a node_modules, dist or .git directory at any depth, a *.log
\* or .DS_Store file), so the ignore predicate does too, and false for a path
\* that matches no pattern.
C20_DenyListMatches ==
  ret.op = "matchesPattern" =>
    /\ OnDenyList(ret.segments, ret.pattern) => (ret.result /\ ret.ignored)
    /\ MatchesNoPattern(ret.segments) => (~ret.result /\ ~ret.ignored)

\* the number a text of digits denotes
RECURSIVE Denotes(_)
Denotes(t) ==
  IF Len(t) = 0 THEN 0
  ELSE 10 * Denotes(SubSeq(t, 1, Len(t) - 1))
       + (CHOOSE d \in 0..9 : DecimalDigits[d + 1] = t[Len(t)])

AllDigits(t) == Len(t) >= 1 /\ \A i \in DOMAIN t : IsDigit(t[i])

\* C21: "<n>ms" gives n, "<n>s" gives n * 1000, "<n>" gives n, empty, null
\* and undefined give 1000, and every other text raises an error and gives no
\* delay.
C21_DebounceOptionParsed ==
  ret.op = "parseDebounceOption" =>
    LET in == ret.input
        out == ret.result
        t == in.chars
        n == Len(t)
    IN IF in.kind # "string" \/ n = 0
         THEN ~out.threw /\ out.value = 1000
       ELSE IF AllDigits(t)
         THEN ~out.threw /\ out.value = Denotes(t)
       ELSE IF n >= 3 /\ SubSeq(t, n - 1, n) = <<"m", "s">>
                /\ AllDigits(SubSeq(t, 1, n - 2))
         THEN ~out.threw /\ out.value = Denotes(SubSeq(t, 1, n - 2))
       ELSE IF n >= 2 /\ t[n] = "s" /\ AllDigits(SubSeq(t, 1, n - 1))
         THEN ~out.threw /\ out.value = 1000 * Denotes(SubSeq(t, 1, n - 1))
       ELSE out.threw /\ "value" \notin DOMAIN out

\* "2s" was parsed
C21_Witness ==
  /\ ret.op = "parseDebounceOption"
  /\ ret.input = [kind |-> "string", chars |-> <<"2", "s">>]
  /\ ret.result = [threw |-> FALSE, value |-> 2000]

\* the position of step a in the steps a cycle has completed, 0 when absent
StepAt(steps, a) ==
  IF \E i \in DOMAIN steps : steps[i] = a
    THEN CHOOSE i \in DOMAIN steps : steps[i] = a
  ELSE 0

\* step a, when completed, was completed once and after step b
After(steps, a, b) ==
  StepAt(steps, a) > 0 =>
    /\ StepAt(steps, b) > 0
    /\ StepAt(steps, b) < StepAt(steps, a)
    /\ Cardinality({i \in DOMAIN steps : steps[i] = a}) = 1

StrictOrder(steps) ==
  /\ After(steps, "diff", "enumerate")
  /\ After(steps, "generate", "diff")
  /\ After(steps, "updateCache", "generate")
  /\ After(steps, "save", "updateCache")

\* C22: within one cycle of an incremental session enumeration completes
\* before the diff, the diff before generation, generation before the cache
\* update and the cache update before save(); a cycle whose generation throws
\* has neither updated the cache nor saved, and takes no further step.
C22_CycleStepsInOrder ==
  /\ [](\A c \in cycles : StrictOrder(Append(c.steps, c.pc)))
  /\ [](ret.op = "cycle.finish" => StrictOrder(ret.steps))
  /\ []((ret.op = "processChanges.rejected" /\ ret.step = "generate") =>
          /\ StrictOrder(ret.steps)
          /\ StepAt(ret.steps, "updateCache") = 0
          /\ StepAt(ret.steps, "save") = 0)
  /\ [][(ret'.op = "processChanges.rejected" /\ ret'.step = "generate") =>
          (cacheVars' = cacheVars /\ disk' = disk)]_vars
  /\ [][(cacheVars' # cacheVars \/ disk' # disk) =>
          /\ ret'.op \in {"startWatching", "cycle.updateCache", "cycle.save"}
          /\ "id" \in DOMAIN ret' => ret'.id \notin failedCycles]_vars

\* after a cycle had failed and a file was written, a cycle went through all
\* five steps
C22_Witness ==
  /\ ret.op = "cycle.finish"
  /\ ret.steps = <<"enumerate", "diff", "generate", "updateCache", "save">>
  /\ fsOps = 1
  /\ enabled
  /\ failedCycles # {}

\* C23: when a debounce timer fires, processChanges receives the eventType and
\* the path of the most recent handleFileChange call for that root, never those
\* of an earlier call.
C23_LastEventWins ==
  ret.op = "timerFire" =>
    /\ ret.eventType = lastEvent[ret.root].last.eventType
    /\ ret.path = lastEvent[ret.root].last.path
    /\ \E c \in cycles : c.id = ret.id /\ c.eventType = ret.eventType

\* a timer fired after two calls of one burst that differ in event type and
\* in path
C23_Witness ==
  /\ ret.op = "timerFire"
  /\ burst[ret.root].len >= 2
  /\ lastEvent[ret.root].previous.eventType \notin {"none", ret.eventType}
  /\ lastEvent[ret.root].previous.path \notin {0, ret.path}

\* C24: the files a cycle passes to generation do not depend on its trigger:
\* from the same project files and the same cache, a cycle triggered by any
\* other event type or path passes the same files, the full current diff.
C24_FilesIndependentOfTrigger ==
  [][ret'.op = "processChanges" =>
       /\ \A e \in EventTypes :
            ret'.files = FilesToProcess(e, watchCache, enabled, metadata, fs)
       /\ ret'.files = IF watchCache
                         THEN GetChangedFiles(enabled, metadata, fs,
                                              GetFiles(fs)).changed
                       ELSE GetFiles(fs)
       /\ ~ret'.skipped => generated' = ret'.files]_vars

\* an unlink of the first file triggered a cycle with a cache that regenerated
\* the second file, the only one that had changed
C24_Witness ==
  /\ ret.op = "processChanges"
  /\ ret.eventType = "unlink"
  /\ ret.path = 1
  /\ watchCache /\ enabled
  /\ ret.files = <<2>>
  /\ generated = <<2>>
  /\ DOMAIN fs = Paths

\* a relationships blob has been cached: the store holds something other than
\* the Map of its constructor and what that Map is saved and loaded as
BlobCached == relationships \notin {RelMap, RelObject}

\* C25: with the cache enabled and nothing changed or deleted,
\* processIncremental returns the cached relationships blob if one has been
\* cached and else the result of processor([]); processor is not called with a
\* non-empty list, and the cache is neither modified nor saved.
C25_NoChangesUsesCache ==
  [][(ret'.op = "processIncremental" /\ ret'.enabled
        /\ Len(ret'.changed) = 0 /\ Len(ret'.deleted) = 0) =>
       /\ ~ret'.threw
       /\ ret'.result = IF BlobCached
                          THEN [from |-> "cache", blob |-> relationships]
                        ELSE ProcessorResult(<<>>)
       /\ \A i \in DOMAIN ret'.calls : Len(ret'.calls[i]) = 0
       /\ cacheVars' = cacheVars
       /\ disk' = disk]_vars

\* C26: with a non-empty ChangeSet processIncremental does cleanup(deleted),
\* then calls processor once, with exactly the changed files, then
\* updateFileCache for every changed file, then save(); when processor throws
\* no fingerprint of a changed file is written.
C26_IncrementalStepsInOrder ==
  /\ []((ret.op = "processIncremental" /\ ret.enabled
           /\ (Len(ret.changed) > 0 \/ Len(ret.deleted) > 0)) =>
          /\ ret.calls = <<ret.changed>>
          /\ ret.trace = IF ret.threw THEN <<"cleanup", "processor">>
                         ELSE <<"cleanup", "processor", "updateFileCache", "save">>)
  /\ [][pi.pc # "idle" =>
          /\ metadata' # metadata =>
               \/ pi.pc = "cleanup" /\ DOMAIN metadata' = DOMAIN metadata \ Range(pi.deleted)
               \/ /\ pi.pc = "updateFileCache"
                  /\ pi.calls = <<pi.changed>>
                  /\ metadata' = UpdateAll(enabled, metadata, fs, now, pi.changed)
          /\ disk' # disk => pi.pc \in {"cleanup", "save"}
          /\ (pi.pc = "save" /\ pi' # pi /\ enabled /\ disk.dir) =>
               disk'.metadata = Json([files |-> ObjectFromEntries(metadata)])
          /\ (ret'.op = "processIncremental" /\ ret'.threw) =>
               (metadata' = metadata /\ snapshot' = snapshot /\ disk' = disk
                /\ pi.pc = "processor")]_vars

\* a call with one changed and one deleted file returned after its four steps,
\* and the changed file has its fingerprint
C26_Witness ==
  /\ ret.op = "processIncremental"
  /\ ~ret.threw
  /\ ret.changed = <<1>>
  /\ ret.deleted = <<2>>
  /\ ret.trace = <<"cleanup", "processor", "updateFileCache", "save">>
  /\ DOMAIN metadata = {1}

\* the cycle record of a generateOutput(initialFiles, 'initial') in progress
InitialGenerations == {c \in cycles : c.eventType = "initial"}

\* C27: startWatching runs generateOutput once, over every file of its
\* listing even when the cache it loaded calls files unchanged, with the cache
\* update and the save when there is a cache, and only then creates the
\* watcher: while the initial generation runs its root has no watcher, no
\* armed timer and no debounce cycle
C27_InitialGenerationBeforeSubscription ==
  /\ \A c \in InitialGenerations :
       /\ c.root \notin watchers
       /\ Debounced = {}
       /\ timerQueue = {}
       /\ c.pc # "diff"
       /\ c.changed = c.files
  /\ ret.op = "startWatching.return" =>
       /\ ret.generated = ret.files
       /\ ret.steps = IF ret.cached THEN <<"generate", "updateCache", "save">>
                      ELSE <<"generate">>
       /\ ret.cached => ret.saved
       /\ ret.root \in watchers
       /\ InitialGenerations = {}

\* startWatching returned after generating files its loaded cache called
\* unchanged
C27_Witness ==
  /\ ret.op = "startWatching.return"
  /\ ret.cached
  /\ ret.unchanged # <<>>
  /\ ret.generated = ret.files

\* C28: smartDiff never changes what is processed: processChanges passes the
\* complete current listing to generateOutput with smartDiff set as with
\* smartDiff unset, whether or not files were added or removed since the last
\* listing, and generateOutput generates from that listing what it generates
\* without smartDiff; only the logged line depends on the structural diff.
C28_SmartDiffSameFiles ==
  [][ret'.op = "processChanges" =>
       LET currentFiles == GetFiles(fs)
           toProcess == FilesOfGenerateOutput(currentFiles, ret'.eventType,
                                              watchCache, enabled, metadata, fs)
       IN /\ ret'.passed = currentFiles
          /\ \A sd \in BOOLEAN :
               FilesPassed(watchCache, sd, currentFiles, lastGeneratedFiles)
                 = ret'.passed
          /\ ret'.files = toProcess
          /\ ~ret'.skipped => generated' = toProcess
          /\ lastGeneratedFiles' = Range(currentFiles)]_vars

\* a cycle of an incremental watcher with smartDiff found a file added, logged
\* it, and passed both files of the project on
C28_Witness ==
  /\ ret.op = "processChanges"
  /\ ret.smartDiff
  /\ watchCache
  /\ Len(ret.log) = 1
  /\ ret.log[1].added = 1
  /\ Len(ret.passed) = 2

\* what save() writes into a section of the cache directory
SectionDocument(section) ==
  IF section = "metadata" THEN Json([files |-> ObjectFromEntries(metadata)])
  ELSE IF section = "snapshot" THEN Json([files |-> ObjectFromEntries(snapshot)])
  ELSE Json([relationships |-> RelToJson(relationships)])

IoOps == {"io.initialize", "io.getChangedFiles", "io.updateFileCache",
          "io.cleanup", "io.save", "io.clear"}

\* C29: no Cache Store operation raises on a disk I/O failure: initialize,
\* getChangedFiles, updateFileCache, cleanup, save and clear return normally
\* whichever stat, read, write, mkdir or rm fails, and save() on an enabled
\* store with its directory writes every section whose write does not fail
\* and leaves the others as they were.
C29_NoOperationRaises ==
  /\ ret.op \in IoOps => ~ret.threw
  /\ (ret.op = "io.save" /\ enabled /\ ret.before.dir) =>
       \A s \in Sections :
         disk[s] = IF s \in ret.failing THEN ret.before[s] ELSE SectionDocument(s)

\* save() wrote the snapshot and the relationships of a store that holds a
\* fingerprint while the write of the metadata failed
C29_Witness ==
  /\ ret.op = "io.save"
  /\ ret.failing = {"metadata"}
  /\ enabled
  /\ ret.before.dir
  /\ metadata # EmptyMap
  /\ disk.metadata # SectionDocument("metadata")
  /\ disk.snapshot = SectionDocument("snapshot")
  /\ disk.snapshot # ret.before.snapshot
  /\ disk.relationships = SectionDocument("relationships")

\* the files of a call whose stat or read failed: those made to fail and those
\* that do not exist
Unavailable(r) == (r.statFails \cup r.readFails \cup (Paths \ DOMAIN fs))
                    \cap Range(r.files)

\* C30: a file whose stat or read fails is treated as changed and is never
\* cached: getChangedFiles puts it in changed, updateFileCache leaves its
\* fingerprint and its snapshot entry as they were, and the other files of the
\* call are diffed and cached as they are without the failure.
C30_UnavailableFileChangedNeverCached ==
  /\ ret.op = "probe.getChangedFiles" =>
       /\ \A f \in Unavailable(ret) : f \in Range(ret.value.changed)
       /\ \A f \in Range(ret.files) \ Unavailable(ret) :
            f \in Range(ret.value.changed)
              <=> HasFileChanged(enabled, metadata, fs, f)
  /\ ret.op = "probe.updateFileCache" =>
       /\ \A f \in Unavailable(ret) :
            /\ f \in DOMAIN metadata <=> f \in DOMAIN ret.before.metadata
            /\ f \in DOMAIN metadata => metadata[f] = ret.before.metadata[f]
            /\ f \in DOMAIN snapshot <=> f \in DOMAIN ret.before.snapshot
            /\ f \in DOMAIN snapshot => snapshot[f] = ret.before.snapshot[f]
       /\ \A f \in Range(ret.files) \ Unavailable(ret) :
            /\ f \in DOMAIN metadata
            /\ metadata[f].hash = GetFileHash(fs, f).hash
            /\ f \in DOMAIN snapshot

\* what cleanup(paths) does in memory, and to relationships.json: the entries
\* of the given paths are gone, every other entry and the blob are as before
CleanupFrame ==
  LET given == Range(ret'.paths)
  IN /\ DOMAIN metadata' = DOMAIN metadata \ given
     /\ \A f \in DOMAIN metadata' : metadata'[f] = metadata[f]
     /\ DOMAIN snapshot' = DOMAIN snapshot \ given
     /\ \A f \in DOMAIN snapshot' : snapshot'[f] = snapshot[f]
     /\ relationships' = relationships
     /\ disk'.relationships = disk.relationships
     /\ given = {} => disk' = disk

\* metadata.json and snapshot.json hold what the store holds after the step
CleanupPersisted ==
  /\ disk'.metadata = Json([files |-> ObjectFromEntries(metadata')])
  /\ disk'.snapshot = Json([files |-> ObjectFromEntries(snapshot')])

GoesOn(c) ==
  \/ \E d \in cycles' : d.id = c.id /\ d.root = c.root /\ d.eventType = c.eventType
  \/ ret'.op = "cycle.finish" /\ ret'.id = c.id /\ ret'.root = c.root
  \/ ret'.op = "startWatching.return" /\ c.eventType = "initial"

\* C32: stopWatching does not abort a cycle in flight: no step, a stop
\* included, takes a cycle away before its return, a cycle with a cache that
\* generated returns after its cache update and save, whether its root is
\* still watched or not, and a timer fires only for a root that has its
\* watcher, so none starts a cycle for a root after its stop.
C32_StopDoesNotAbortCycle ==
  [][/\ \A c \in cycles : GoesOn(c)
     /\ ret'.op = "timerFire" => ret'.root \in watchers
     /\ (ret'.op = "cycle.finish" /\ watchCache /\ StepAt(ret'.steps, "generate") > 0) =>
          /\ StepAt(ret'.steps, "updateCache") > StepAt(ret'.steps, "generate")
          /\ StepAt(ret'.steps, "save") > StepAt(ret'.steps, "updateCache")]_vars

\* a cycle saved the fingerprints it had recorded after stopWatching had
\* returned and left its root without watcher and without timer
C32_Witness ==
  /\ ret.op = "cycle.save"
  /\ ret.root \notin watchers
  /\ stopping.pc = "idle"
  /\ timerQueue = {}
  /\ watchCache /\ enabled
  /\ DOMAIN metadata # {}
  /\ disk.metadata = Json([files |-> ObjectFromEntries(metadata)])

\* the roots other than r
OtherRoots(r) == Roots \ {r}

\* C33: debounce timers are independent per root: a handleFileChange for one
\* root leaves the pending timer and the handle of every other root as they
\* are, and a pending timer goes away only by firing and starting the cycle
\* of its root, by a later event of its own root, or by a stop.
C33_TimersIndependentPerRoot ==
  [][/\ ret'.op = "handleFileChange" =>
          \A r \in OtherRoots(ret'.root) :
            /\ {t \in timerQueue' : t.root = r} = {t \in timerQueue : t.root = r}
            /\ r \in DOMAIN debounceTimers' <=> r \in DOMAIN debounceTimers
            /\ r \in DOMAIN debounceTimers => debounceTimers'[r] = debounceTimers[r]
     /\ \A t \in timerQueue \ timerQueue' :
          \/ /\ ret'.op = "timerFire"
             /\ ret'.id = t.id
             /\ ret'.root = t.root
             /\ \E c \in cycles' \ cycles : c.id = t.id /\ c.root = t.root
          \/ ret'.op = "handleFileChange" /\ ret'.root = t.root
          \/ ret'.op \in {"stopWatching", "stopWatching.closed"}]_vars

\* an event of one root armed its timer while the timer of the other root,
\* armed before, stayed pending with its deadline
C33_Witness ==
  /\ ret.op = "handleFileChange"
  /\ \E t \in timerQueue, u \in timerQueue :
       /\ t.root = ret.root
       /\ u.root # ret.root
       /\ u.id < t.id
       /\ u.deadline < t.deadline
       /\ debounceTimers[u.root] = u.id

\* the files cycle c generated that are not now as its generation read them
ModifiedSinceRead(c) ==
  {f \in Range(c.changed) \cap DOMAIN fs :
     f \notin DOMAIN c.read \/ c.read[f] # fs[f]}

\* C34: no lost update: when a cycle has recorded the fingerprints of the
\* files it generated, a file that was modified after the generation read it
\* is still reported as changed by the next getChangedFiles.
C34_NoLostUpdate ==
  (ret.op = "cycle.updateCache" /\ enabled /\ watchCache) =>
    \A c \in cycles :
      (c.id = ret.id /\ c.root = ret.root) =>
        \A f \in ModifiedSinceRead(c) :
          f \in Range(GetChangedFiles(enabled, metadata, fs, GetFiles(fs)).changed)

\* C35: the files a cycle writes itself start no further cycle: no debounce
\* timer is armed, and none fires, for an event of the cache's metadata.json,
\* so that the session falls idle once the events from outside stop.
C35_OwnWritesStartNoCycle ==
  /\ \A t \in timerQueue : t.path # CacheFile
  /\ ret.op = "timerFire" => ret.path # CacheFile

\* the ChangeSet a cycle that starts now gets from the cache
ChangeSetNow == GetChangedFiles(enabled, metadata, fs, GetFiles(fs))

\* C36: in watch mode with the cache enabled, a cycle whose ChangeSet has no
\* changed file but a deleted one still regenerates, and the output it leaves
\* lists no deleted file.
C36_DeletedOnlyRegenerates ==
  [][(/\ ret'.op = "processChanges"
      /\ watchCache
      /\ enabled
      /\ ChangeSetNow.changed = <<>>
      /\ ChangeSetNow.deleted # <<>>) =>
       /\ ~ret'.skipped
       /\ Range(generated') \cap Range(ChangeSetNow.deleted) = {}]_vars

\* C37: when a watch cycle with the cache has completed, the cache holds no
\* fingerprint and no snapshot entry for a path that was not in the cycle's
\* file list, so that no later cycle reports that path as deleted again.
C37_NoEntryForAbsentPath ==
  (ret.op = "processChanges" /\ watchCache /\ enabled) =>
    /\ DOMAIN metadata \subseteq Range(GetFiles(fs))
    /\ DOMAIN snapshot \subseteq Range(GetFiles(fs))
    /\ ChangeSetNow.deleted = <<>>

\* the operations of one CacheManager
StoreOps == {"initialize", "hasFileChanged", "getChangedFiles", "updateFileCache",
             "cleanup", "save", "clear"}

\* C38: the enabled flag is monotone: on a store that is disabled no
\* operation, initialize included, sets the flag back to true, and none
\* changes the fingerprint map or the snapshot map.
C38_DisabledStaysDisabled ==
  [][(~enabled /\ ret'.op \in StoreOps) =>
       /\ ~enabled'
       /\ metadata' = metadata
       /\ snapshot' = snapshot]_vars

\* initialize() was called again, with a mkdir that would succeed, on a store
\* that had disabled itself while holding fingerprints, and left it disabled
C38_Witness ==
  /\ ret.op = "initialize"
  /\ ret.mkdirOk
  /\ ~enabled
  /\ disk.dir
  /\ DOMAIN metadata # {}
  /\ DOMAIN snapshot # {}

====
